---- MODULE Spec2Model ----
(***************************************************************************)
(* The clothing recommendation engine of the weather-based clothing        *)
(* advisor (src/src/agent/core/clothing_logic.py, with the thresholds and  *)
(* the temperature classifier of src/src/shared/constants.py).             *)
(*                                                                         *)
(* An invocation of ClothingAdvisor.generate_recommendations is modelled   *)
(* statement by statement: each caller has a frame holding the locals of   *)
(* the call (items, special_considerations, temp_category) and a program   *)
(* counter naming the next statement.                                      *)
(*                                                                         *)
(* The module also holds direct calls of _dedupe_and_prioritize and        *)
(* _enforce_item_count on arbitrary lists (SpecDirect), the request        *)
(* handler ResponsesServer.handle_responses of                             *)
(* src/src/agent/hosting/responses_server.py, one request at a time        *)
(* (SpecServer), WeatherTool.get_weather of                                *)
(* src/src/agent/tools/weather_tool.py (SpecTool), the executions of       *)
(* WorkflowOrchestrator.execute_workflow of                                *)
(* src/src/agent-container/workflow_orchestrator.py (SpecWorkflow), the    *)
(* engine on WeatherData with all its fields (SpecFields) and the          *)
(* conversation histories of AgentService in                               *)
(* src/src/agent/core/agent_service.py (SpecService).                      *)
(*                                                                         *)
(* Temperatures and wind speeds are floats in the source.  The model       *)
(* counts them in steps of 1/Scale of a unit, so 32.0 is 32 * Scale and    *)
(* the largest modelled value below it is 32 * Scale - 1.                  *)
(***************************************************************************)
EXTENDS Integers, Sequences, FiniteSets, TLC

VARIABLES
    pc,                      \* caller -> the next statement of its invocation
    weather,                 \* caller -> the WeatherData argument
    items,                   \* frame  -> the local list `items`
    special_considerations,  \* frame  -> the local list `special_considerations`
    temp_category,           \* frame  -> the local `temp_category`
    result,                  \* caller -> the ClothingRecommendation returned
    interleaved,             \* caller -> another caller ran a statement during its invocation
    memo,                    \* a completed call kept for comparison: its input and result
    \* a direct call of _dedupe_and_prioritize or _enforce_item_count
    direct_pc,               \* where the call stands
    direct_arg,              \* the list it was given
    direct_category,         \* the temp_category it was given (_enforce_item_count)
    direct_items,            \* its working list, returned at the end
    \* ResponsesServer and the request handle_responses is serving
    server_pc,               \* where handle_responses stands
    weather_api_url,         \* the environment variable WEATHER_API_URL, if set
    agent_service,           \* self._agent_service, if any
    conversations,           \* self._conversations: conversation id -> history
    request,                 \* the arguments: messages, conversation_id, model
    conversation_id,         \* the local `conversation_id`
    history,                 \* the local `history`
    user_message,            \* the local `user_message`, if not None
    process_message_calls,   \* the process_message calls of this request
    response,                \* what handle_responses returned or raised
    \* a call of WeatherTool.get_weather
    tool_pc,                 \* where get_weather stands
    zip_code,                \* its argument
    http_response,           \* what requests.get returned
    tracked,                 \* the track_dependency calls: their `success`
    tool_result,             \* what get_weather returned
    \* WorkflowOrchestrator and the executions of execute_workflow
    wf_pc,                   \* execution -> where it stands
    wf_message,              \* execution -> its argument `message`
    wf_session_id,           \* execution -> its local `session_id`
    wf_steps,                \* execution -> the list of steps it created
    wf_calls,                \* execution -> the calls it made of the agent service
    wf_result,               \* execution -> what it returned
    self_steps,              \* self.steps: the execution whose list it is
    workflow_context,        \* self.workflow_context
    \* AgentService (agent/core) and the calls of its methods
    as_pc,                   \* task -> where its call stands
    as_call,                 \* task -> the method called and its arguments
    as_conversation,         \* task -> the list its local `conversation` names
    as_result,               \* task -> what the call returned or raised
    agent,                   \* self.agent: None without the SDK
    sessions,                \* self.sessions: session id -> the list stored
    lists                    \* list object -> its elements

engine_vars == <<pc, weather, items, special_considerations, temp_category, result,
                 interleaved, memo>>

direct_vars == <<direct_pc, direct_arg, direct_category, direct_items>>

server_vars == <<server_pc, weather_api_url, agent_service, conversations, request,
                 conversation_id, history, user_message, process_message_calls, response>>

tool_vars == <<tool_pc, zip_code, http_response, tracked, tool_result>>

workflow_vars == <<wf_pc, wf_message, wf_session_id, wf_steps, wf_calls, wf_result,
                   self_steps, workflow_context>>

service_vars == <<as_pc, as_call, as_conversation, as_result, agent, sessions, lists>>

\* What no statement of generate_recommendations touches.
beside_engine == <<direct_vars, server_vars, tool_vars, workflow_vars, service_vars>>

\* What neither _dedupe_and_prioritize nor _enforce_item_count touches.
beside_direct == <<engine_vars, server_vars, tool_vars, workflow_vars, service_vars>>

\* What handle_responses does not touch.
beside_server == <<engine_vars, direct_vars, tool_vars, workflow_vars, service_vars>>

\* What get_weather does not touch.
beside_tool == <<engine_vars, direct_vars, server_vars, workflow_vars, service_vars>>

\* What execute_workflow does not touch.
beside_workflow == <<engine_vars, direct_vars, server_vars, tool_vars, service_vars>>

\* What the methods of AgentService do not touch.
beside_service == <<engine_vars, direct_vars, server_vars, tool_vars, workflow_vars>>

vars == <<engine_vars, direct_vars, server_vars, tool_vars, workflow_vars, service_vars>>

(***************************************************************************)
(* Bounds of the model                                                     *)
(***************************************************************************)
Scale == 10
NumCallers == 2

(***************************************************************************)
(* constants.py                                                            *)
(***************************************************************************)
TEMP_LABEL_FREEZING == "Winter"
TEMP_LABEL_COOL == "Cool"
TEMP_LABEL_MODERATE == "Moderate"
TEMP_LABEL_WARM == "Warm"
TEMP_LABEL_HOT == "Hot"

WIND_THRESHOLD_BREEZY == 15 * Scale
WIND_THRESHOLD_WINDY == 25 * Scale

HUMIDITY_HIGH == 70

PRECIP_TYPE_RAIN == "rain"
PRECIP_TYPE_SNOW == "snow"
PRECIP_TYPE_NONE == "<None>"

SC_002_MIN_RECOMMENDATIONS == 3
SC_002_MAX_RECOMMENDATIONS == 5

classify_temperature_inclusive(temp_fahrenheit) ==
    IF temp_fahrenheit <= 32 * Scale THEN TEMP_LABEL_FREEZING
    ELSE IF temp_fahrenheit <= 50 * Scale THEN TEMP_LABEL_COOL
    ELSE IF temp_fahrenheit <= 70 * Scale THEN TEMP_LABEL_MODERATE
    ELSE IF temp_fahrenheit <= 85 * Scale THEN TEMP_LABEL_WARM
    ELSE TEMP_LABEL_HOT

classify_temperature(temp_fahrenheit) ==
    IF temp_fahrenheit < 32 * Scale THEN TEMP_LABEL_FREEZING
    ELSE IF temp_fahrenheit < 50 * Scale THEN TEMP_LABEL_COOL
    ELSE IF temp_fahrenheit < 70 * Scale THEN TEMP_LABEL_MODERATE
    ELSE IF temp_fahrenheit < 85 * Scale THEN TEMP_LABEL_WARM
    ELSE TEMP_LABEL_HOT

(***************************************************************************)
(* models.py                                                               *)
(***************************************************************************)
OUTERWEAR == "outerwear"
LAYERS == "layers"
ACCESSORIES == "accessories"
FOOTWEAR == "footwear"

ClothingItem(name, category, reason, priority) ==
    [name |-> name, category |-> category, reason |-> reason, priority |-> priority]

WeatherData(location, temperature, humidity, wind_speed, precipitation_type) ==
    [location |-> location, temperature |-> temperature, humidity |-> humidity,
     wind_speed |-> wind_speed, precipitation_type |-> precipitation_type]

ClothingRecommendation(w, its, summary, category, considerations) ==
    [weather |-> w, items |-> its, summary |-> summary,
     temperature_category |-> category, special_considerations |-> considerations]

(***************************************************************************)
(* Python built-ins used by the engine                                     *)
(***************************************************************************)
\* str.lower() on the strings the engine lowers: item names and category labels.
lower(s) ==
    CASE s = "Heavy winter coat" -> "heavy winter coat"
      [] s = "Warm layers (thermal underwear or fleece)" -> "warm layers (thermal underwear or fleece)"
      [] s = "Winter hat and gloves" -> "winter hat and gloves"
      [] s = "Insulated boots" -> "insulated boots"
      [] s = "Medium-weight jacket" -> "medium-weight jacket"
      [] s = "Long-sleeve shirt or sweater" -> "long-sleeve shirt or sweater"
      [] s = "Light scarf (optional)" -> "light scarf (optional)"
      [] s = "Light jacket or cardigan" -> "light jacket or cardigan"
      [] s = "Long-sleeve shirt or light layers" -> "long-sleeve shirt or light layers"
      [] s = "Short-sleeve shirt or light top" -> "short-sleeve shirt or light top"
      [] s = "Light pants or shorts" -> "light pants or shorts"
      [] s = "Sunglasses" -> "sunglasses"
      [] s = "Lightweight, breathable clothing" -> "lightweight, breathable clothing"
      [] s = "Shorts or light skirt" -> "shorts or light skirt"
      [] s = "Wide-brim hat or cap" -> "wide-brim hat or cap"
      [] s = "Waterproof jacket or rain coat" -> "waterproof jacket or rain coat"
      [] s = "Umbrella" -> "umbrella"
      [] s = "Waterproof shoes or boots" -> "waterproof shoes or boots"
      [] s = "Waterproof winter boots" -> "waterproof winter boots"
      [] s = "Waterproof gloves" -> "waterproof gloves"
      [] s = "Wind-resistant outer layer" -> "wind-resistant outer layer"
      [] s = "Windbreaker" -> "windbreaker"
      [] s = "Light windbreaker or jacket" -> "light windbreaker or jacket"
      [] s = "Comfortable closed-toe shoes" -> "comfortable closed-toe shoes"
      [] s = "Long pants" -> "long pants"
      [] s = "Comfortable shoes" -> "comfortable shoes"
      [] s = "Light hat or cap" -> "light hat or cap"
      [] s = "SUNGLASSES" -> "sunglasses"
      [] s = "Winter" -> "winter"
      [] s = "Cool" -> "cool"
      [] s = "Moderate" -> "moderate"
      [] s = "Warm" -> "warm"
      [] s = "Hot" -> "hot"
      [] OTHER -> s

\* format(x, ".0f"): x, counted in 1/Scale, rounded to the nearest integer,
\* a tie going to the even one, written in decimal.
fmt0(x) ==
    LET q == x \div Scale
        r == x % Scale
        n == IF 2 * r < Scale THEN q
             ELSE IF 2 * r > Scale THEN q + 1
             ELSE IF q % 2 = 0 THEN q ELSE q + 1
    IN ToString(n)

\* bool(weather.precipitation_type): None is falsy, "rain" and "snow" are not.
truthy(s) == s # PRECIP_TYPE_NONE

\* list.sort(key=...) is stable: an element goes after every element already
\* placed whose key is not larger.
RECURSIVE insert_by_priority(_, _)
insert_by_priority(sorted, x) ==
    IF sorted = <<>> THEN <<x>>
    ELSE IF Head(sorted).priority <= x.priority
         THEN <<Head(sorted)>> \o insert_by_priority(Tail(sorted), x)
         ELSE <<x>> \o sorted

RECURSIVE sort_by_priority(_)
sort_by_priority(seq) ==
    IF seq = <<>> THEN <<>>
    ELSE insert_by_priority(sort_by_priority(SubSeq(seq, 1, Len(seq) - 1)), seq[Len(seq)])

(***************************************************************************)
(* clothing_logic.py: the rule tables                                      *)
(***************************************************************************)
get_temperature_items(category, w) ==
    IF category = "Winter" THEN
        << ClothingItem("Heavy winter coat", OUTERWEAR,
                "Essential for " \o fmt0(w.temperature) \o "°F freezing temperatures", 1),
           ClothingItem("Warm layers (thermal underwear or fleece)", LAYERS,
                "Provides insulation under your coat", 1),
           ClothingItem("Winter hat and gloves", ACCESSORIES,
                "Protects extremities from cold", 1),
           ClothingItem("Insulated boots", FOOTWEAR,
                "Keeps feet warm and dry", 2) >>
    ELSE IF category = "Cool" THEN
        << ClothingItem("Medium-weight jacket", OUTERWEAR,
                "Appropriate for " \o fmt0(w.temperature) \o "°F cool weather", 1),
           ClothingItem("Long-sleeve shirt or sweater", LAYERS,
                "Provides comfortable warmth", 1),
           ClothingItem("Light scarf (optional)", ACCESSORIES,
                "Extra warmth for neck area", 3) >>
    ELSE IF category = "Moderate" THEN
        << ClothingItem("Light jacket or cardigan", OUTERWEAR,
                "Perfect for " \o fmt0(w.temperature) \o "°F mild temperatures", 2),
           ClothingItem("Long-sleeve shirt or light layers", LAYERS,
                "Versatile for changing conditions", 1) >>
    ELSE IF category = "Warm" THEN
        << ClothingItem("Short-sleeve shirt or light top", LAYERS,
                "Comfortable for " \o fmt0(w.temperature) \o "°F warm weather", 1),
           ClothingItem("Light pants or shorts", LAYERS,
                "Keeps you cool in warm temperatures", 1),
           ClothingItem("Sunglasses", ACCESSORIES,
                "Protection from sun", 2) >>
    ELSE \* Hot
        << ClothingItem("Lightweight, breathable clothing", LAYERS,
                "Essential for " \o fmt0(w.temperature) \o "°F hot weather", 1),
           ClothingItem("Shorts or light skirt", LAYERS,
                "Maximum airflow and comfort", 1),
           ClothingItem("Wide-brim hat or cap", ACCESSORIES,
                "Sun protection for face and neck", 1),
           ClothingItem("Sunglasses", ACCESSORIES,
                "Eye protection from sun", 2) >>

\* The snow branch without the test on the category.
get_precipitation_items_gloves_always(precip_type, category) ==
    IF precip_type = PRECIP_TYPE_RAIN THEN
        << ClothingItem("Waterproof jacket or rain coat", OUTERWEAR, "Stay dry in the rain", 1),
           ClothingItem("Umbrella", ACCESSORIES, "Additional rain protection", 2),
           ClothingItem("Waterproof shoes or boots", FOOTWEAR, "Keep feet dry", 1) >>
    ELSE IF precip_type = PRECIP_TYPE_SNOW THEN
        << ClothingItem("Waterproof winter boots", FOOTWEAR, "Essential for snow and slush", 1),
           ClothingItem("Waterproof gloves", ACCESSORIES,
                        "Keeps hands warm and dry in snow", 1) >>
    ELSE <<>>

\* The rain jacket tagged "recommended" instead of "essential".
get_precipitation_items_jacket_optional(precip_type, category) ==
    IF precip_type = PRECIP_TYPE_RAIN THEN
        << ClothingItem("Waterproof jacket or rain coat", OUTERWEAR, "Stay dry in the rain", 2),
           ClothingItem("Umbrella", ACCESSORIES, "Additional rain protection", 2),
           ClothingItem("Waterproof shoes or boots", FOOTWEAR, "Keep feet dry", 1) >>
    ELSE IF precip_type = PRECIP_TYPE_SNOW THEN
        << ClothingItem("Waterproof winter boots", FOOTWEAR, "Essential for snow and slush", 1) >>
        \o (IF category # "Winter"
            THEN << ClothingItem("Waterproof gloves", ACCESSORIES,
                        "Keeps hands warm and dry in snow", 1) >>
            ELSE <<>>)
    ELSE <<>>

\* The waterproof footwear tagged "recommended" instead of "essential".
get_precipitation_items_footwear_optional(precip_type, category) ==
    IF precip_type = PRECIP_TYPE_RAIN THEN
        << ClothingItem("Waterproof jacket or rain coat", OUTERWEAR, "Stay dry in the rain", 1),
           ClothingItem("Umbrella", ACCESSORIES, "Additional rain protection", 2),
           ClothingItem("Waterproof shoes or boots", FOOTWEAR, "Keep feet dry", 2) >>
    ELSE IF precip_type = PRECIP_TYPE_SNOW THEN
        << ClothingItem("Waterproof winter boots", FOOTWEAR, "Essential for snow and slush", 2) >>
        \o (IF category # "Winter"
            THEN << ClothingItem("Waterproof gloves", ACCESSORIES,
                        "Keeps hands warm and dry in snow", 1) >>
            ELSE <<>>)
    ELSE <<>>

get_precipitation_items(precip_type, category) ==
    IF precip_type = PRECIP_TYPE_RAIN THEN
        << ClothingItem("Waterproof jacket or rain coat", OUTERWEAR, "Stay dry in the rain", 1),
           ClothingItem("Umbrella", ACCESSORIES, "Additional rain protection", 2),
           ClothingItem("Waterproof shoes or boots", FOOTWEAR, "Keep feet dry", 1) >>
    ELSE IF precip_type = PRECIP_TYPE_SNOW THEN
        << ClothingItem("Waterproof winter boots", FOOTWEAR, "Essential for snow and slush", 1) >>
        \o (IF category # "Winter"
            THEN << ClothingItem("Waterproof gloves", ACCESSORIES,
                        "Keeps hands warm and dry in snow", 1) >>
            ELSE <<>>)
    ELSE <<>>

\* The breezy branch without the test on the category.
get_wind_items_breezy_always(wind_speed, category) ==
    IF wind_speed > WIND_THRESHOLD_WINDY THEN
        IF category \in {"Winter", "Cool"}
        THEN << ClothingItem("Wind-resistant outer layer", OUTERWEAR,
                    "Blocks " \o fmt0(wind_speed) \o " mph winds", 1) >>
        ELSE << ClothingItem("Windbreaker", OUTERWEAR,
                    "Protection from " \o fmt0(wind_speed) \o " mph winds", 1) >>
    ELSE
        << ClothingItem("Light windbreaker or jacket", OUTERWEAR,
                "Light wind protection for breezy conditions", 2) >>

\* The high-wind branch without its else: nothing for Moderate, Warm and Hot.
get_wind_items_cold_only(wind_speed, category) ==
    IF wind_speed > WIND_THRESHOLD_WINDY THEN
        IF category \in {"Winter", "Cool"}
        THEN << ClothingItem("Wind-resistant outer layer", OUTERWEAR,
                    "Blocks " \o fmt0(wind_speed) \o " mph winds", 1) >>
        ELSE <<>>
    ELSE
        IF category \in {"Winter", "Cool", "Moderate"}
        THEN << ClothingItem("Light windbreaker or jacket", OUTERWEAR,
                    "Light wind protection for breezy conditions", 2) >>
        ELSE <<>>

\* The breezy branch left out: items for high wind only.
get_wind_items_high_only(wind_speed, category) ==
    IF wind_speed > WIND_THRESHOLD_WINDY THEN
        IF category \in {"Winter", "Cool"}
        THEN << ClothingItem("Wind-resistant outer layer", OUTERWEAR,
                    "Blocks " \o fmt0(wind_speed) \o " mph winds", 1) >>
        ELSE << ClothingItem("Windbreaker", OUTERWEAR,
                    "Protection from " \o fmt0(wind_speed) \o " mph winds", 1) >>
    ELSE <<>>

\* The breezy item under the name of the Moderate jacket.
get_wind_items_jacket_again(wind_speed, category) ==
    IF wind_speed > WIND_THRESHOLD_WINDY THEN
        IF category \in {"Winter", "Cool"}
        THEN << ClothingItem("Wind-resistant outer layer", OUTERWEAR,
                    "Blocks " \o fmt0(wind_speed) \o " mph winds", 1) >>
        ELSE << ClothingItem("Windbreaker", OUTERWEAR,
                    "Protection from " \o fmt0(wind_speed) \o " mph winds", 1) >>
    ELSE
        IF category \in {"Winter", "Cool", "Moderate"}
        THEN << ClothingItem("Light jacket or cardigan", OUTERWEAR,
                    "Light wind protection for breezy conditions", 2) >>
        ELSE <<>>

get_wind_items(wind_speed, category) ==
    IF wind_speed > WIND_THRESHOLD_WINDY THEN
        IF category \in {"Winter", "Cool"}
        THEN << ClothingItem("Wind-resistant outer layer", OUTERWEAR,
                    "Blocks " \o fmt0(wind_speed) \o " mph winds", 1) >>
        ELSE << ClothingItem("Windbreaker", OUTERWEAR,
                    "Protection from " \o fmt0(wind_speed) \o " mph winds", 1) >>
    ELSE
        IF category \in {"Winter", "Cool", "Moderate"}
        THEN << ClothingItem("Light windbreaker or jacket", OUTERWEAR,
                    "Light wind protection for breezy conditions", 2) >>
        ELSE <<>>

\* The wind note chosen with >= for >.
wind_note_inclusive(wind_speed) ==
    IF wind_speed >= WIND_THRESHOLD_WINDY THEN "High winds expected" ELSE "Breezy conditions"

\* The wind note of generate_recommendations (lines 76-79).
wind_note(wind_speed) ==
    IF wind_speed > WIND_THRESHOLD_WINDY THEN "High winds expected" ELSE "Breezy conditions"

\* The humidity test with >= for >.
humidity_applies_inclusive(category, humidity) ==
    category \in {"Warm", "Hot"} /\ humidity >= HUMIDITY_HIGH

\* The humidity test of generate_recommendations (line 82).
humidity_applies(category, humidity) ==
    category \in {"Warm", "Hot"} /\ humidity > HUMIDITY_HIGH

(***************************************************************************)
(* clothing_logic.py: de-duplication, ordering and the item count          *)
(***************************************************************************)
\* The for loop of _dedupe_and_prioritize: the items whose lowered name was
\* not seen before, in their order.
RECURSIVE unique_items(_, _)
unique_items(seq, seen_names) ==
    IF seq = <<>> THEN <<>>
    ELSE IF lower(Head(seq).name) \notin seen_names
         THEN <<Head(seq)>> \o unique_items(Tail(seq), seen_names \cup {lower(Head(seq).name)})
         ELSE unique_items(Tail(seq), seen_names)

\* The for loop comparing names as they are written.
RECURSIVE unique_items_by_spelling(_, _)
unique_items_by_spelling(seq, seen_names) ==
    IF seq = <<>> THEN <<>>
    ELSE IF Head(seq).name \notin seen_names
         THEN <<Head(seq)>> \o unique_items_by_spelling(Tail(seq), seen_names \cup {Head(seq).name})
         ELSE unique_items_by_spelling(Tail(seq), seen_names)

\* _dedupe_and_prioritize without .lower().
dedupe_by_spelling(seq) == sort_by_priority(unique_items_by_spelling(seq, {}))

\* _dedupe_and_prioritize without its sort.
dedupe_unsorted(seq) == unique_items(seq, {})

dedupe_and_prioritize(seq) == sort_by_priority(unique_items(seq, {}))

\* The slice taken with the lower limit: items[:MIN].
truncate_to_min(seq) ==
    IF Len(seq) > SC_002_MAX_RECOMMENDATIONS
    THEN SubSeq(seq, 1, SC_002_MIN_RECOMMENDATIONS)
    ELSE seq

\* The truncation with the test but without the slice.
truncate_skipped(seq) == seq

\* The slice taken from the end of the list: items[-MAX:].
truncate_tail(seq) ==
    IF Len(seq) > SC_002_MAX_RECOMMENDATIONS
    THEN SubSeq(seq, Len(seq) - SC_002_MAX_RECOMMENDATIONS + 1, Len(seq))
    ELSE seq

\* if len(items) > MAX: items = items[:MAX]
truncate(seq) ==
    IF Len(seq) > SC_002_MAX_RECOMMENDATIONS
    THEN SubSeq(seq, 1, SC_002_MAX_RECOMMENDATIONS)
    ELSE seq

\* The loop test written with != and the upper limit.
needs_padding_unless_full(seq) == Len(seq) # SC_002_MAX_RECOMMENDATIONS

\* The loop test written with <=.
needs_padding_inclusive(seq) == Len(seq) <= SC_002_MIN_RECOMMENDATIONS

\* The loop test written with the upper limit.
needs_padding_to_max(seq) == Len(seq) < SC_002_MAX_RECOMMENDATIONS

\* while len(items) < MIN
needs_padding(seq) == Len(seq) < SC_002_MIN_RECOMMENDATIONS

has_footwear(seq) == \E i \in 1..Len(seq) : seq[i].category = FOOTWEAR

\* The choice made on the temperature category alone in cold weather.
filler_item_cold_first(seq, category) ==
    IF category \in {"Winter", "Cool"}
    THEN ClothingItem("Long pants", LAYERS, "Keeps legs warm in cooler weather", 3)
    ELSE IF ~has_footwear(seq)
         THEN ClothingItem("Comfortable shoes", FOOTWEAR,
                  "Appropriate footwear for the weather", 3)
         ELSE ClothingItem("Light hat or cap", ACCESSORIES,
                  "Optional sun protection", 3)

\* The item one iteration of the padding loop appends.
filler_item(seq, category) ==
    IF category \in {"Winter", "Cool"} THEN
        IF ~has_footwear(seq)
        THEN ClothingItem("Comfortable closed-toe shoes", FOOTWEAR,
                 "Appropriate footwear for cooler weather", 3)
        ELSE ClothingItem("Long pants", LAYERS,
                 "Keeps legs warm in cooler weather", 3)
    ELSE
        IF ~has_footwear(seq)
        THEN ClothingItem("Comfortable shoes", FOOTWEAR,
                 "Appropriate footwear for the weather", 3)
        ELSE ClothingItem("Light hat or cap", ACCESSORIES,
                 "Optional sun protection", 3)

RECURSIVE pad(_, _)
pad(seq, category) ==
    IF needs_padding(seq) THEN pad(Append(seq, filler_item(seq, category)), category)
    ELSE seq

enforce_item_count(seq, category) == pad(truncate(seq), category)

\* The wind clause written for wind speeds from the threshold on.
generate_summary_wind_inclusive(category, w) ==
    "For " \o w.location \o " at " \o fmt0(w.temperature) \o "°F (" \o lower(category) \o " weather)"
    \o (IF truthy(w.precipitation_type) THEN " with " \o w.precipitation_type ELSE "")
    \o (IF w.wind_speed >= WIND_THRESHOLD_BREEZY
        THEN " and " \o fmt0(w.wind_speed) \o " mph winds" ELSE "")
    \o ": dress in layers appropriate for the conditions."

generate_summary(category, w) ==
    "For " \o w.location \o " at " \o fmt0(w.temperature) \o "°F (" \o lower(category) \o " weather)"
    \o (IF truthy(w.precipitation_type) THEN " with " \o w.precipitation_type ELSE "")
    \o (IF w.wind_speed > WIND_THRESHOLD_BREEZY
        THEN " and " \o fmt0(w.wind_speed) \o " mph winds" ELSE "")
    \o ": dress in layers appropriate for the conditions."

\* The notes generate_recommendations records for precipitation, wind and humidity.
precipitation_notes(w) ==
    IF truthy(w.precipitation_type)
    THEN << "Precipitation expected: " \o w.precipitation_type >>
    ELSE <<>>

wind_notes(w) ==
    IF w.wind_speed > WIND_THRESHOLD_BREEZY THEN << wind_note(w.wind_speed) >> ELSE <<>>

humidity_notes(category, w) ==
    IF humidity_applies(category, w.humidity)
    THEN << "High humidity - choose breathable fabrics" >>
    ELSE <<>>

\* The list handed to _dedupe_and_prioritize: temperature, then precipitation,
\* then wind items.
candidate_items(w) ==
    LET category == classify_temperature(w.temperature) IN
    get_temperature_items(category, w)
    \o (IF truthy(w.precipitation_type)
        THEN get_precipitation_items(w.precipitation_type, category) ELSE <<>>)
    \o (IF w.wind_speed > WIND_THRESHOLD_BREEZY
        THEN get_wind_items(w.wind_speed, category) ELSE <<>>)

\* generate_recommendations run from its first statement to its return with
\* nothing in between.
generate_recommendations(w) ==
    LET category == classify_temperature(w.temperature)
        considerations ==
            precipitation_notes(w) \o wind_notes(w) \o humidity_notes(category, w)
        kept == enforce_item_count(dedupe_and_prioritize(candidate_items(w)), category)
    IN ClothingRecommendation(w, kept, generate_summary(category, w), category, considerations)

(***************************************************************************)
(* Invocations of generate_recommendations                                 *)
(***************************************************************************)
\* The locals of an invocation live in a list stored on the advisor.
shared_frame(c) == 1

\* The locals of an invocation live in the frame of that invocation.
frame(c) == c

\* The list left by the previous invocation is used again.
kept_list(previous) == previous

\* items: List[ClothingItem] = [] and special_considerations: List[str] = []
new_list(previous) == <<>>

Callers == DOMAIN pc

\* The argument read with feels_like in the place of temperature.
arg_feels_like(c) == [weather[c][1] EXCEPT !.temperature = weather[c][1].feels_like]

arg(c) == weather[c][1]

returned(c) == result[c][1]

active(c) == pc[c] \notin {"idle", "done"}

\* Caller c runs a statement: every other invocation in progress has been
\* interleaved with.
Observe(c) ==
    interleaved' = [d \in Callers |->
                      IF d = c THEN interleaved[d] ELSE interleaved[d] \/ active(d)]

\* Lines 53-57: the call, the fresh locals and the classification.
Call(c, inputs) ==
    /\ pc[c] \in {"idle", "done"}
    /\ \E w \in inputs :
        /\ weather' = [weather EXCEPT ![c] = <<w>>]
        /\ temp_category' =
             [temp_category EXCEPT ![frame(c)] = classify_temperature(w.temperature)]
        /\ memo' = IF memo = <<>> THEN memo
                   ELSE << [memo[1] EXCEPT !.earlier = TRUE,
                                           !.others = @ \/ w # memo[1].weather] >>
    /\ items' = [items EXCEPT ![frame(c)] = new_list(@)]
    /\ special_considerations' = [special_considerations EXCEPT ![frame(c)] = new_list(@)]
    /\ result' = [result EXCEPT ![c] = <<>>]
    /\ interleaved' = [d \in Callers |->
                         IF d = c THEN FALSE ELSE interleaved[d] \/ active(d)]
    /\ pc' = [pc EXCEPT ![c] = "temperature"]
    /\ UNCHANGED beside_engine

\* Line 60.
TemperatureItems(c) ==
    /\ pc[c] = "temperature"
    /\ items' = [items EXCEPT ![frame(c)] =
                    @ \o get_temperature_items(temp_category[frame(c)], arg(c))]
    /\ pc' = [pc EXCEPT ![c] = "precipitation"]
    /\ Observe(c)
    /\ UNCHANGED <<weather, special_considerations, temp_category, result, memo>>
    /\ UNCHANGED beside_engine

\* Lines 63-70.
PrecipitationItems(c) ==
    /\ pc[c] = "precipitation"
    /\ IF truthy(arg(c).precipitation_type)
       THEN /\ items' = [items EXCEPT ![frame(c)] =
                           @ \o get_precipitation_items(arg(c).precipitation_type,
                                                        temp_category[frame(c)])]
            /\ special_considerations' =
                 [special_considerations EXCEPT ![frame(c)] = @ \o precipitation_notes(arg(c))]
       ELSE UNCHANGED <<items, special_considerations>>
    /\ pc' = [pc EXCEPT ![c] = "wind"]
    /\ Observe(c)
    /\ UNCHANGED <<weather, temp_category, result, memo>>
    /\ UNCHANGED beside_engine

\* Lines 73-79.
WindItems(c) ==
    /\ pc[c] = "wind"
    /\ IF arg(c).wind_speed > WIND_THRESHOLD_BREEZY
       THEN /\ items' = [items EXCEPT ![frame(c)] =
                           @ \o get_wind_items(arg(c).wind_speed, temp_category[frame(c)])]
            /\ special_considerations' =
                 [special_considerations EXCEPT ![frame(c)] = @ \o wind_notes(arg(c))]
       ELSE UNCHANGED <<items, special_considerations>>
    /\ pc' = [pc EXCEPT ![c] = "humidity"]
    /\ Observe(c)
    /\ UNCHANGED <<weather, temp_category, result, memo>>
    /\ UNCHANGED beside_engine

\* Lines 82-83.
HumidityNote(c) ==
    /\ pc[c] = "humidity"
    /\ special_considerations' =
         [special_considerations EXCEPT ![frame(c)] =
             @ \o humidity_notes(temp_category[frame(c)], arg(c))]
    /\ pc' = [pc EXCEPT ![c] = "dedupe"]
    /\ Observe(c)
    /\ UNCHANGED <<weather, items, temp_category, result, memo>>
    /\ UNCHANGED beside_engine

\* Line 86.
DedupeAndPrioritize(c) ==
    /\ pc[c] = "dedupe"
    /\ items' = [items EXCEPT ![frame(c)] = dedupe_and_prioritize(@)]
    /\ pc' = [pc EXCEPT ![c] = "enforce"]
    /\ Observe(c)
    /\ UNCHANGED <<weather, special_considerations, temp_category, result, memo>>
    /\ UNCHANGED beside_engine

\* Line 89, _enforce_item_count up to its loop (lines 352-353).
Truncate(c) ==
    /\ pc[c] = "enforce"
    /\ items' = [items EXCEPT ![frame(c)] = truncate(@)]
    /\ pc' = [pc EXCEPT ![c] = "pad"]
    /\ Observe(c)
    /\ UNCHANGED <<weather, special_considerations, temp_category, result, memo>>
    /\ UNCHANGED beside_engine

\* One iteration of the loop of _enforce_item_count (lines 356-395).
PadIteration(c) ==
    /\ pc[c] = "pad"
    /\ needs_padding(items[frame(c)])
    /\ items' = [items EXCEPT ![frame(c)] =
                    Append(@, filler_item(@, temp_category[frame(c)]))]
    /\ Observe(c)
    /\ UNCHANGED <<pc, weather, special_considerations, temp_category, result, memo>>
    /\ UNCHANGED beside_engine

\* The loop ends; lines 92-100: the summary and the recommendation returned.
Return(c) ==
    /\ pc[c] = "pad"
    /\ ~needs_padding(items[frame(c)])
    /\ result' = [result EXCEPT ![c] =
                    << ClothingRecommendation(arg(c), items[frame(c)],
                           generate_summary(temp_category[frame(c)], arg(c)),
                           temp_category[frame(c)], special_considerations[frame(c)]) >>]
    /\ pc' = [pc EXCEPT ![c] = "done"]
    /\ Observe(c)
    /\ UNCHANGED <<weather, items, special_considerations, temp_category, memo>>
    /\ UNCHANGED beside_engine

\* The caller of a completed invocation keeps its input and its result.
Remember(c) ==
    /\ pc[c] = "done"
    /\ memo' = << [weather |-> arg(c), recommendation |-> returned(c),
                   earlier |-> FALSE, others |-> FALSE] >>
    /\ UNCHANGED <<pc, weather, items, special_considerations, temp_category, result,
                   interleaved>>
    /\ UNCHANGED beside_engine

(***************************************************************************)
(* The inputs                                                              *)
(***************************************************************************)
Locations == {"Seattle, WA"}

\* Every band, both sides of every boundary, and a negative temperature.
Temperatures ==
    {-10 * Scale, 32 * Scale - 1, 32 * Scale, 50 * Scale - 1, 50 * Scale, 55 * Scale,
     60 * Scale, 70 * Scale - 1, 70 * Scale, 85 * Scale - 1, 85 * Scale, 90 * Scale}

WindSpeeds ==
    {5 * Scale, WIND_THRESHOLD_BREEZY, WIND_THRESHOLD_BREEZY + 1,
     WIND_THRESHOLD_WINDY, WIND_THRESHOLD_WINDY + 1, 30 * Scale}

Humidities == {40, HUMIDITY_HIGH, HUMIDITY_HIGH + 1, 80}

PrecipitationTypes == {PRECIP_TYPE_NONE, PRECIP_TYPE_RAIN, PRECIP_TYPE_SNOW}

Weathers(temperatures, humidities, winds) ==
    { WeatherData(l, t, h, v, p) :
        l \in Locations, t \in temperatures, h \in humidities, v \in winds,
        p \in PrecipitationTypes }

AllWeather == Weathers(Temperatures, Humidities, WindSpeeds)

\* One temperature in every band, the three wind regimes, humidity on both
\* sides of its threshold.
RepeatWeather ==
    Weathers({25 * Scale, 40 * Scale, 60 * Scale, 70 * Scale, 90 * Scale},
             {40, HUMIDITY_HIGH, HUMIDITY_HIGH + 1},
             {5 * Scale, 20 * Scale, 30 * Scale})

\* A few inputs whose item lists differ in every stage.
SharedWeather ==
    { WeatherData("Seattle, WA", 25 * Scale, 50, 30 * Scale, PRECIP_TYPE_RAIN),
      WeatherData("Seattle, WA", 60 * Scale, 40, 5 * Scale, PRECIP_TYPE_NONE),
      WeatherData("Seattle, WA", 40 * Scale, 60, 20 * Scale, PRECIP_TYPE_SNOW),
      WeatherData("Seattle, WA", 75 * Scale, 75, 20 * Scale, PRECIP_TYPE_RAIN),
      WeatherData("Seattle, WA", 90 * Scale, 80, 30 * Scale, PRECIP_TYPE_NONE) }

(***************************************************************************)
(* Specifications                                                          *)
(***************************************************************************)
\* ResponsesServer.__init__ in an environment: nothing served yet.
InitServer(url, service) ==
    /\ server_pc = "idle"
    /\ weather_api_url = url
    /\ agent_service = service
    /\ conversations = <<>>
    /\ request = <<>>
    /\ conversation_id = <<>>
    /\ history = <<>>
    /\ user_message = <<>>
    /\ process_message_calls = <<>>
    /\ response = <<>>

InitTool ==
    /\ tool_pc = "idle"
    /\ zip_code = ""
    /\ http_response = <<>>
    /\ tracked = <<>>
    /\ tool_result = <<>>

\* The executions of execute_workflow and the tasks calling AgentService.
Executions == {1, 2}
Tasks == {1, 2}

\* The list objects: one per session stored and one per call under way.
SessionIds == {"session-1", "session-2"}
ListObjects == 1..(Cardinality(SessionIds) + Cardinality(Tasks))

\* WorkflowOrchestrator.__init__
InitWorkflow ==
    /\ wf_pc = [e \in Executions |-> "idle"]
    /\ wf_message = [e \in Executions |-> ""]
    /\ wf_session_id = [e \in Executions |-> ""]
    /\ wf_steps = [e \in Executions |-> <<>>]
    /\ wf_calls = [e \in Executions |-> <<>>]
    /\ wf_result = [e \in Executions |-> <<>>]
    /\ self_steps = <<>>
    /\ workflow_context = <<>>

\* AgentService.__init__: self.agent = self._initialize_agent() and
\* self.sessions = {}
InitService(chat_agent) ==
    /\ agent = chat_agent
    /\ as_pc = [t \in Tasks |-> "idle"]
    /\ as_call = [t \in Tasks |-> <<>>]
    /\ as_conversation = [t \in Tasks |-> <<>>]
    /\ as_result = [t \in Tasks |-> <<>>]
    /\ sessions = <<>>
    /\ lists = [o \in ListObjects |-> <<>>]

InitEngine(callers) ==
    /\ pc = [c \in callers |-> "idle"]
    /\ weather = [c \in callers |-> <<>>]
    /\ items = [c \in callers |-> <<>>]
    /\ special_considerations = [c \in callers |-> <<>>]
    /\ temp_category = [c \in callers |-> ""]
    /\ result = [c \in callers |-> <<>>]
    /\ interleaved = [c \in callers |-> FALSE]
    /\ memo = <<>>

InitDirect ==
    /\ direct_pc = "idle"
    /\ direct_arg = <<>>
    /\ direct_category = ""
    /\ direct_items = <<>>

\* The engine's callers beside a server started by main.py with
\* WEATHER_API_URL set.
InitFor(callers) ==
    /\ InitEngine(callers)
    /\ InitDirect
    /\ InitServer(<<"http://weather-api:8080">>, <<>>)
    /\ InitTool
    /\ InitWorkflow
    /\ InitService(<<"ChatAgent">>)

\* One caller, every input.
Init == InitFor({1})

Next ==
    \/ \E c \in Callers : Call(c, AllWeather)
    \/ \E c \in Callers : TemperatureItems(c)
    \/ \E c \in Callers : PrecipitationItems(c)
    \/ \E c \in Callers : WindItems(c)
    \/ \E c \in Callers : HumidityNote(c)
    \/ \E c \in Callers : DedupeAndPrioritize(c)
    \/ \E c \in Callers : Truncate(c)
    \/ \E c \in Callers : PadIteration(c)
    \/ \E c \in Callers : Return(c)

Spec == Init /\ [][Next]_vars

\* One caller calling again and again, an earlier call kept for comparison.
NextRepeat ==
    \/ \E c \in Callers : Call(c, RepeatWeather)
    \/ \E c \in Callers : TemperatureItems(c)
    \/ \E c \in Callers : PrecipitationItems(c)
    \/ \E c \in Callers : WindItems(c)
    \/ \E c \in Callers : HumidityNote(c)
    \/ \E c \in Callers : DedupeAndPrioritize(c)
    \/ \E c \in Callers : Truncate(c)
    \/ \E c \in Callers : PadIteration(c)
    \/ \E c \in Callers : Return(c)
    \/ \E c \in Callers : Remember(c)

SpecRepeat == Init /\ [][NextRepeat]_vars

\* NumCallers callers of one advisor, their statements interleaved in any order.
InitShared == InitFor(1..NumCallers)

NextShared ==
    \/ \E c \in Callers : Call(c, SharedWeather)
    \/ \E c \in Callers : TemperatureItems(c)
    \/ \E c \in Callers : PrecipitationItems(c)
    \/ \E c \in Callers : WindItems(c)
    \/ \E c \in Callers : HumidityNote(c)
    \/ \E c \in Callers : DedupeAndPrioritize(c)
    \/ \E c \in Callers : Truncate(c)
    \/ \E c \in Callers : PadIteration(c)
    \/ \E c \in Callers : Return(c)

SpecShared == InitShared /\ [][NextShared]_vars

(***************************************************************************)
(* Properties                                                              *)
(***************************************************************************)
done(c) == pc[c] = "done"

names_of(seq) == { seq[i].name : i \in 1..Len(seq) }

notes_of(seq) == { seq[i] : i \in 1..Len(seq) }

\* The invocation of c dropped candidates in the truncation.
truncated(c) == Len(candidate_items(arg(c))) > 5

\* The invocation of c went through the padding loop.
padded(c) == Len(candidate_items(arg(c))) < 3

\* C1: every recommendation returned by generate_recommendations holds
\* between 3 and 5 items, whatever the temperature band, the precipitation
\* type (absent, rain, snow), the wind speed and the humidity.
C1_ItemCount ==
    \A c \in Callers :
        done(c) => Len(returned(c).items) >= 3 /\ Len(returned(c).items) <= 5

\* A rainy, windy call whose candidates were cut down to five.
C1_Witness ==
    \E c \in Callers :
        /\ done(c)
        /\ truncated(c)
        /\ arg(c).precipitation_type = "rain"
        /\ Len(returned(c).items) = 5

\* C2: classify_temperature yields one of the five labels by half-open
\* bands: below 32 Winter, [32, 50) Cool, [50, 70) Moderate, [70, 85) Warm,
\* 85 and above Hot; each boundary belongs to the upper band, the largest
\* value below it to the lower one, and negative temperatures are Winter.
C2_Classification ==
    \A c \in Callers :
        pc[c] # "idle" =>
            LET t == arg(c).temperature
                label == temp_category[c]
            IN /\ label \in {"Winter", "Cool", "Moderate", "Warm", "Hot"}
               /\ label = "Winter" <=> t < 32 * Scale
               /\ label = "Cool" <=> (32 * Scale <= t /\ t < 50 * Scale)
               /\ label = "Moderate" <=> (50 * Scale <= t /\ t < 70 * Scale)
               /\ label = "Warm" <=> (70 * Scale <= t /\ t < 85 * Scale)
               /\ label = "Hot" <=> 85 * Scale <= t
               /\ t = 32 * Scale - 1 => label = "Winter"
               /\ t = 32 * Scale => label = "Cool"
               /\ t = 50 * Scale - 1 => label = "Cool"
               /\ t = 50 * Scale => label = "Moderate"
               /\ t = 70 * Scale - 1 => label = "Moderate"
               /\ t = 70 * Scale => label = "Warm"
               /\ t = 85 * Scale - 1 => label = "Warm"
               /\ t = 85 * Scale => label = "Hot"
               /\ t < 0 => label = "Winter"

\* A call at exactly 50.0 degrees, classified Moderate.
C2_Witness ==
    \E c \in Callers :
        /\ pc[c] = "temperature"
        /\ arg(c).temperature = 50 * Scale
        /\ temp_category[c] = "Moderate"

\* C3: no two items of a returned recommendation have names that are equal
\* after lowercasing, the fillers appended by the padding loop included.
C3_DistinctNames ==
    \A c \in Callers :
        done(c) =>
            \A i, j \in 1..Len(returned(c).items) :
                i # j => lower(returned(c).items[i].name) # lower(returned(c).items[j].name)

\* A call that was padded: its last item is a filler.
C3_Witness ==
    \E c \in Callers :
        /\ done(c)
        /\ padded(c)
        /\ returned(c).items[Len(returned(c).items)].name = "Comfortable shoes"

\* C4: the priorities of a returned recommendation never decrease from one
\* item to the next, after a truncation as well as after padding.
C4_PriorityOrder ==
    \A c \in Callers :
        done(c) =>
            \A i \in 1..(Len(returned(c).items) - 1) :
                returned(c).items[i].priority <= returned(c).items[i + 1].priority

\* A truncated call that kept items of different priorities.
C4_Witness ==
    \E c \in Callers :
        /\ done(c)
        /\ truncated(c)
        /\ returned(c).items[1].priority < returned(c).items[5].priority

\* C5: a call returns what an earlier call with the same WeatherData
\* returned (items, category, summary and notes), whatever was called in
\* between.
C5_Deterministic ==
    \A c \in Callers :
        (done(c) /\ memo # <<>> /\ memo[1].weather = arg(c))
            => returned(c) = memo[1].recommendation

\* A call completed after an earlier call with the same input and a call
\* with another input in between.
C5_Witness ==
    \E c \in Callers :
        /\ done(c)
        /\ memo # <<>>
        /\ memo[1].earlier
        /\ memo[1].others
        /\ memo[1].weather = arg(c)

\* C6: an invocation interleaved statement by statement with other
\* invocations on the same advisor returns the recommendation it returns
\* when it runs alone.
C6_Isolated ==
    \A c \in Callers :
        done(c) => returned(c) = generate_recommendations(arg(c))

\* Two invocations with different inputs, each interleaved with the other,
\* one of them completed.
C6_Witness ==
    \E c, d \in Callers :
        /\ c # d
        /\ done(c)
        /\ interleaved[c]
        /\ interleaved[d]
        /\ pc[d] # "idle"
        /\ arg(c) # arg(d)

\* C7: with rain the returned items hold the priority-1 outerwear item named
\* for waterproofing and rain, and the notes hold "Precipitation expected:
\* rain", in every band and at every wind speed.
C7_RainJacket ==
    \A c \in Callers :
        (done(c) /\ arg(c).precipitation_type = "rain") =>
            /\ \E i \in 1..Len(returned(c).items) :
                  /\ returned(c).items[i].name = "Waterproof jacket or rain coat"
                  /\ returned(c).items[i].category = "outerwear"
                  /\ returned(c).items[i].priority = 1
            /\ "Precipitation expected: rain" \in notes_of(returned(c).special_considerations)

\* A rainy, very windy call in a band with three essential items: six
\* priority-1 candidates for five places.
C7_Witness ==
    \E c \in Callers :
        /\ done(c)
        /\ arg(c).precipitation_type = "rain"
        /\ arg(c).wind_speed > 25 * Scale
        /\ returned(c).temperature_category = "Winter"
        /\ truncated(c)

\* C8: with wind above 25 mph and no precipitation the returned items hold
\* an outerwear wind item ("Wind-resistant outer layer" for Winter and Cool,
\* "Windbreaker" otherwise) and the notes hold "High winds expected".
C8_WindLayer ==
    \A c \in Callers :
        (done(c) /\ arg(c).wind_speed > 25 * Scale
                 /\ arg(c).precipitation_type = PRECIP_TYPE_NONE) =>
            /\ \E i \in 1..Len(returned(c).items) :
                  /\ returned(c).items[i].category = "outerwear"
                  /\ returned(c).items[i].name =
                        IF returned(c).temperature_category \in {"Winter", "Cool"}
                        THEN "Wind-resistant outer layer" ELSE "Windbreaker"
            /\ "High winds expected" \in notes_of(returned(c).special_considerations)

\* The scenario of the specification: 60 degrees, 30 mph, no precipitation.
C8_Witness ==
    \E c \in Callers :
        /\ done(c)
        /\ arg(c).temperature = 60 * Scale
        /\ arg(c).wind_speed = 30 * Scale
        /\ arg(c).precipitation_type = PRECIP_TYPE_NONE
        /\ "Windbreaker" \in names_of(returned(c).items)

differ_in_humidity_only(w1, w2) ==
    /\ w1.humidity # w2.humidity
    /\ [w1 EXCEPT !.humidity = w2.humidity] = w2

\* C9: the breathable-fabrics note is recorded exactly when the category is
\* Warm or Hot and the humidity is above 70 (not at 70), and two calls whose
\* inputs differ in humidity only return the same items.
C9_Humidity ==
    \A c \in Callers :
        done(c) =>
            /\ "High humidity - choose breathable fabrics"
                    \in notes_of(returned(c).special_considerations)
               <=> (returned(c).temperature_category \in {"Warm", "Hot"}
                    /\ arg(c).humidity > 70)
            /\ (memo # <<>> /\ differ_in_humidity_only(memo[1].weather, arg(c)))
               => returned(c).items = memo[1].recommendation.items

\* A warm call at humidity 70 without the note, after the same call at
\* humidity 71 with it.
C9_Witness ==
    \E c \in Callers :
        /\ done(c)
        /\ memo # <<>>
        /\ memo[1].earlier
        /\ differ_in_humidity_only(memo[1].weather, arg(c))
        /\ arg(c).humidity = 70
        /\ memo[1].weather.humidity = 71
        /\ returned(c).temperature_category = "Warm"
        /\ "High humidity - choose breathable fabrics"
               \in notes_of(memo[1].recommendation.special_considerations)
        /\ "High humidity - choose breathable fabrics"
               \notin notes_of(returned(c).special_considerations)

\* C10: every priority-1 item of the temperature bundle of the input's band
\* is among the returned items, whatever precipitation and wind add and
\* also when the list is truncated.
C10_EssentialsKept ==
    \A c \in Callers :
        done(c) =>
            LET bundle == get_temperature_items(
                              classify_temperature(arg(c).temperature), arg(c))
            IN \A i \in 1..Len(bundle) :
                  bundle[i].priority = 1 =>
                      \E j \in 1..Len(returned(c).items) : returned(c).items[j] = bundle[i]

\* A hot, rainy, very windy call: the list was truncated and the lightweight
\* clothing is still in it.
C10_Witness ==
    \E c \in Callers :
        /\ done(c)
        /\ truncated(c)
        /\ returned(c).temperature_category = "Hot"
        /\ arg(c).precipitation_type = "rain"
        /\ arg(c).wind_speed > 25 * Scale
        /\ "Lightweight, breathable clothing" \in names_of(returned(c).items)

\* s holds sub at position i.
occurs_at(s, sub, i) ==
    /\ i >= 1
    /\ i + Len(sub) - 1 <= Len(s)
    /\ SubSeq(s, i, i + Len(sub) - 1) = sub

contains(s, sub) == \E i \in 1..(Len(s) - Len(sub) + 1) : occurs_at(s, sub, i)

ends_with(s, sub) == Len(s) >= Len(sub) /\ occurs_at(s, sub, Len(s) - Len(sub) + 1)

\* C11: the summary holds " with {precipitation_type}" exactly when a
\* precipitation type is present and " and {wind} mph winds" exactly when
\* the wind speed is above 15.0 (not at 15.0); when both are there the
\* precipitation clause stands before the wind clause; the summary always
\* ends with ": dress in layers appropriate for the conditions."
C11_SummaryClauses ==
    \A c \in Callers :
        done(c) =>
            LET s == returned(c).summary
                w == arg(c)
                rainy == w.precipitation_type # PRECIP_TYPE_NONE
                windy == w.wind_speed > 15 * Scale
                precip_clause == " with " \o w.precipitation_type
                wind_clause == " and " \o fmt0(w.wind_speed) \o " mph winds"
            IN /\ rainy => contains(s, precip_clause)
               /\ ~rainy => ~contains(s, " with ")
               /\ windy => contains(s, wind_clause)
               /\ ~windy => ~contains(s, " mph winds")
               /\ (rainy /\ windy) =>
                     \A i, j \in 1..Len(s) :
                         (occurs_at(s, precip_clause, i) /\ occurs_at(s, wind_clause, j))
                             => i < j
               /\ ends_with(s, ": dress in layers appropriate for the conditions.")

\* A snowy call just above the wind threshold: both clauses are in the summary.
C11_Witness ==
    \E c \in Callers :
        /\ done(c)
        /\ arg(c).precipitation_type = "snow"
        /\ arg(c).wind_speed = 15 * Scale + 1
        /\ contains(returned(c).summary, " with snow and 15 mph winds:")

\* What a statement appended to the list `items` of caller c.
added_items(c) ==
    SubSeq(items'[frame(c)], Len(items[frame(c)]) + 1, Len(items'[frame(c)]))

\* A statement of caller c left the items it found in place.
kept_prefix(c) ==
    /\ Len(items'[frame(c)]) >= Len(items[frame(c)])
    /\ SubSeq(items'[frame(c)], 1, Len(items[frame(c)])) = items[frame(c)]

\* C14: for snow the precipitation rule adds a priority-1 footwear item
\* (waterproof boots) in every category, a priority-1 accessories item
\* (waterproof gloves) exactly when the category is not Winter, and records
\* "Precipitation expected: snow" in both cases.
C14_SnowRule ==
    [][ \A c \in Callers :
          (pc[c] = "precipitation" /\ pc'[c] = "wind" /\ arg(c).precipitation_type = "snow")
          => /\ kept_prefix(c)
             /\ \E i \in 1..Len(added_items(c)) :
                   /\ added_items(c)[i].name = "Waterproof winter boots"
                   /\ added_items(c)[i].category = "footwear"
                   /\ added_items(c)[i].priority = 1
             /\ (\E i \in 1..Len(added_items(c)) :
                   /\ added_items(c)[i].name = "Waterproof gloves"
                   /\ added_items(c)[i].category = "accessories"
                   /\ added_items(c)[i].priority = 1)
                <=> temp_category[frame(c)] # "Winter"
             /\ \A i \in 1..Len(added_items(c)) :
                   added_items(c)[i].name \in {"Waterproof winter boots", "Waterproof gloves"}
             /\ special_considerations'[frame(c)] =
                   Append(special_considerations[frame(c)], "Precipitation expected: snow")
      ]_vars

\* A snowy Winter call after the precipitation rule: the boots are in the
\* list, the gloves are not, the note is recorded.
C14_Witness ==
    \E c \in Callers :
        /\ pc[c] = "wind"
        /\ arg(c).precipitation_type = "snow"
        /\ temp_category[frame(c)] = "Winter"
        /\ "Waterproof winter boots" \in names_of(items[frame(c)])
        /\ "Waterproof gloves" \notin names_of(items[frame(c)])
        /\ special_considerations[frame(c)] = << "Precipitation expected: snow" >>

occurrences(seq, x) == Cardinality({ i \in 1..Len(seq) : seq[i] = x })

\* C15: the notes hold exactly one wind note when the wind speed is above
\* 15.0 and none otherwise: "High winds expected" exactly when it is above
\* 25.0, "Breezy conditions" exactly when it is above 15.0 and at most 25.0;
\* never both.
C15_WindNotes ==
    \A c \in Callers :
        done(c) =>
            LET notes == returned(c).special_considerations
                v == arg(c).wind_speed
                high == occurrences(notes, "High winds expected")
                breezy == occurrences(notes, "Breezy conditions")
            IN /\ high + breezy = (IF v > 15 * Scale THEN 1 ELSE 0)
               /\ high = 1 <=> v > 25 * Scale
               /\ breezy = 1 <=> (v > 15 * Scale /\ v <= 25 * Scale)

\* A call at exactly 25.0 mph, noted as breezy.
C15_Witness ==
    \E c \in Callers :
        /\ done(c)
        /\ arg(c).wind_speed = 25 * Scale
        /\ "Breezy conditions" \in notes_of(returned(c).special_considerations)

\* C16: the wind rule adds exactly one outerwear item of priority 1 above
\* 25 mph in every category, exactly one outerwear item of priority 2
\* between 15 (exclusive) and 25 mph in Winter, Cool and Moderate, and
\* nothing between 15 and 25 mph in Warm and Hot or at 15 mph and below.
C16_WindRule ==
    [][ \A c \in Callers :
          (pc[c] = "wind" /\ pc'[c] = "humidity")
          => LET v == arg(c).wind_speed
                 one(priority) ==
                     /\ Len(added_items(c)) = 1
                     /\ added_items(c)[1].category = "outerwear"
                     /\ added_items(c)[1].priority = priority
             IN /\ kept_prefix(c)
                /\ IF v > 25 * Scale THEN one(1)
                   ELSE IF v > 15 * Scale
                           /\ temp_category[frame(c)] \in {"Winter", "Cool", "Moderate"}
                        THEN one(2)
                        ELSE added_items(c) = <<>>
      ]_vars

\* A breezy Warm call after the wind rule: the list is the temperature
\* bundle and nothing else.
C16_Witness ==
    \E c \in Callers :
        /\ pc[c] = "humidity"
        /\ arg(c).wind_speed > 15 * Scale
        /\ arg(c).wind_speed <= 25 * Scale
        /\ arg(c).precipitation_type = PRECIP_TYPE_NONE
        /\ temp_category[frame(c)] = "Warm"
        /\ Len(items[frame(c)]) = 3
        /\ special_considerations[frame(c)] = << "Breezy conditions" >>

(***************************************************************************)
(* Direct calls of _dedupe_and_prioritize and _enforce_item_count          *)
(***************************************************************************)
MaxDedupeLen == 4
MaxEnforceLen == 6

\* Items with names that differ in case only, with a name twice, and with
\* every priority.
DedupePool ==
    { ClothingItem("Umbrella", ACCESSORIES, "Additional rain protection", 2),
      ClothingItem("umbrella", ACCESSORIES, "Folds into a bag", 1),
      ClothingItem("Sunglasses", ACCESSORIES, "Protection from sun", 2),
      ClothingItem("SUNGLASSES", ACCESSORIES, "Eye protection from sun", 3),
      ClothingItem("Long pants", LAYERS, "Keeps legs warm in cooler weather", 3),
      ClothingItem("Heavy winter coat", OUTERWEAR, "Essential in the cold", 1) }

\* Items with different names, of every category and priority, the names
\* of two fillers among them.
EnforcePool ==
    { ClothingItem("Heavy winter coat", OUTERWEAR, "Essential in the cold", 1),
      ClothingItem("Long-sleeve shirt or sweater", LAYERS, "Provides comfortable warmth", 1),
      ClothingItem("Waterproof shoes or boots", FOOTWEAR, "Keep feet dry", 1),
      ClothingItem("Umbrella", ACCESSORIES, "Additional rain protection", 2),
      ClothingItem("Sunglasses", ACCESSORIES, "Protection from sun", 2),
      ClothingItem("Long pants", LAYERS, "Keeps legs warm in cooler weather", 3),
      ClothingItem("Light hat or cap", ACCESSORIES, "Optional sun protection", 3) }

elements_of(seq) == { seq[i] : i \in 1..Len(seq) }

\* The lists over pool of at most n items.
Lists(pool, n) == UNION { [1..k -> pool] : k \in 0..n }

\* The lists over pool of exactly n items, no item twice.
RECURSIVE ListsWithoutRepeat(_, _)
ListsWithoutRepeat(pool, n) ==
    IF n = 0 THEN { <<>> }
    ELSE UNION { { Append(seq, x) : x \in pool \ elements_of(seq) } :
                 seq \in ListsWithoutRepeat(pool, n - 1) }

DedupeInputs == Lists(DedupePool, MaxDedupeLen)

EnforceInputs == UNION { ListsWithoutRepeat(EnforcePool, k) : k \in 0..MaxEnforceLen }

Categories ==
    {TEMP_LABEL_FREEZING, TEMP_LABEL_COOL, TEMP_LABEL_MODERATE, TEMP_LABEL_WARM, TEMP_LABEL_HOT}

\* _dedupe_and_prioritize(items), called and returned.
DedupeCall ==
    /\ direct_pc = "idle"
    /\ \E seq \in DedupeInputs :
        /\ direct_arg' = seq
        /\ direct_items' = dedupe_and_prioritize(seq)
    /\ direct_pc' = "deduped"
    /\ UNCHANGED direct_category
    /\ UNCHANGED beside_direct

\* _enforce_item_count(items, temp_category, weather) up to its loop.
EnforceCall ==
    /\ direct_pc = "idle"
    /\ \E seq \in EnforceInputs, category \in Categories :
        /\ direct_arg' = seq
        /\ direct_category' = category
        /\ direct_items' = truncate(seq)
    /\ direct_pc' = "pad"
    /\ UNCHANGED beside_direct

\* One iteration of its loop.
EnforcePad ==
    /\ direct_pc = "pad"
    /\ needs_padding(direct_items)
    /\ direct_items' = Append(direct_items, filler_item(direct_items, direct_category))
    /\ UNCHANGED <<direct_pc, direct_arg, direct_category>>
    /\ UNCHANGED beside_direct

\* The loop ends and the list is returned.
EnforceReturn ==
    /\ direct_pc = "pad"
    /\ ~needs_padding(direct_items)
    /\ direct_pc' = "enforced"
    /\ UNCHANGED <<direct_arg, direct_category, direct_items>>
    /\ UNCHANGED beside_direct

\* The caller is done with the list.
DirectDone ==
    /\ direct_pc \in {"deduped", "enforced"}
    /\ direct_pc' = "idle"
    /\ direct_arg' = <<>>
    /\ direct_category' = ""
    /\ direct_items' = <<>>
    /\ UNCHANGED beside_direct

NextDirect ==
    \/ DedupeCall
    \/ EnforceCall
    \/ EnforcePad
    \/ EnforceReturn
    \/ DirectDone

SpecDirect == Init /\ [][NextDirect]_vars

(***************************************************************************)
(* Properties of the direct calls                                          *)
(***************************************************************************)
lowered_names(seq) == { lower(seq[i].name) : i \in 1..Len(seq) }

\* Where a lowercased name first occurs in seq.
first_index(seq, lowered) ==
    CHOOSE i \in 1..Len(seq) :
        /\ lower(seq[i].name) = lowered
        /\ \A j \in 1..(i - 1) : lower(seq[j].name) # lowered

\* Where in the argument the k-th returned item comes from.
origin(k) == first_index(direct_arg, lower(direct_items[k].name))

sorted_by_priority(seq) ==
    \A i, j \in 1..Len(seq) : i < j => seq[i].priority <= seq[j].priority

\* C17: whatever list _dedupe_and_prioritize is given, the list it returns
\* holds every lowercased name of the input exactly once, each returned item
\* is the unaltered first item of the input with that lowercased name, and
\* the returned items are in ascending priority, items of equal priority in
\* the order of their first occurrences in the input.
C17_DedupeStableSort ==
    direct_pc = "deduped" =>
        /\ lowered_names(direct_items) = lowered_names(direct_arg)
        /\ \A n \in lowered_names(direct_arg) :
               Cardinality({ k \in 1..Len(direct_items) : lower(direct_items[k].name) = n }) = 1
        /\ \A k \in 1..Len(direct_items) : direct_items[k] = direct_arg[origin(k)]
        /\ \A k, l \in 1..Len(direct_items) :
               k < l =>
                   \/ direct_items[k].priority < direct_items[l].priority
                   \/ /\ direct_items[k].priority = direct_items[l].priority
                      /\ origin(k) < origin(l)

\* A list with a name in two spellings whose later spelling was dropped,
\* with two first occurrences of equal priority, and which the sort
\* reordered.
C17_Witness ==
    /\ direct_pc = "deduped"
    /\ \E i, j \in 1..Len(direct_arg) :
           /\ i < j
           /\ direct_arg[i].name # direct_arg[j].name
           /\ lower(direct_arg[i].name) = lower(direct_arg[j].name)
    /\ \E k, l \in 1..Len(direct_items) :
           k < l /\ direct_items[k].priority = direct_items[l].priority
    /\ \E k, l \in 1..Len(direct_items) : k < l /\ origin(k) > origin(l)

\* C18: a list of more than 5 items given to _enforce_item_count comes back
\* as its first 5 items in their order, no filler is ever appended to it,
\* and when the list given was sorted by priority no dropped item has a
\* smaller priority value than a retained one.
C18_TruncateToFirstFive ==
    (direct_pc \in {"pad", "enforced"} /\ Len(direct_arg) > 5) =>
        /\ direct_items = SubSeq(direct_arg, 1, 5)
        /\ sorted_by_priority(direct_arg) =>
               \A i \in 1..5, j \in 6..Len(direct_arg) :
                   direct_arg[j].priority >= direct_arg[i].priority

\* A sorted list of more than 5 items, returned, one dropped item of the
\* priority of a retained one.
C18_Witness ==
    /\ direct_pc = "enforced"
    /\ Len(direct_arg) > 5
    /\ sorted_by_priority(direct_arg)
    /\ direct_arg[6].priority = direct_arg[5].priority
    /\ Len(direct_items) = 5

\* The filler the choice order names for a list and a temperature category.
is_named_filler(x, seq, category) ==
    IF ~has_footwear(seq)
    THEN /\ x.category = FOOTWEAR
         /\ x.priority = 3
         /\ x.name \in {"Comfortable shoes", "Comfortable closed-toe shoes"}
    ELSE IF category \in {"Winter", "Cool"}
         THEN x.name = "Long pants" /\ x.category = LAYERS
         ELSE /\ x.category = ACCESSORIES
              /\ x.priority = 3
              /\ x.name = "Light hat or cap"

\* C19: for a list of fewer than 3 items, each step of the loop of
\* _enforce_item_count appends one filler, chosen in this order: comfortable
\* shoes (footwear, priority 3) when the list has no footwear item, else
\* "Long pants" (layers) when the category is Winter or Cool, else a hat
\* (accessories, priority 3); and the list returned has exactly 3 items.
C19_FillerOrder ==
    [][ (direct_pc = "pad" /\ Len(direct_arg) < 3) =>
            /\ direct_items' # direct_items =>
                   /\ Len(direct_items') = Len(direct_items) + 1
                   /\ SubSeq(direct_items', 1, Len(direct_items)) = direct_items
                   /\ is_named_filler(direct_items'[Len(direct_items')],
                                      direct_items, direct_category)
            /\ direct_pc' = "enforced" => Len(direct_items') = 3
      ]_vars

\* A cold-weather call on a one-item list without footwear, returned: it
\* got the shoes and then the long pants.
C19_Witness ==
    /\ direct_pc = "enforced"
    /\ Len(direct_arg) = 1
    /\ ~has_footwear(direct_arg)
    /\ direct_category \in {"Winter", "Cool"}
    /\ direct_items[2].category = FOOTWEAR
    /\ direct_items[3].name = "Long pants"

\* C20: _enforce_item_count returns a list of 3 to 5 items as it was given,
\* and a list of fewer than 3 items as the beginning of the list returned,
\* the fillers after it.
C20_AcceptedItemsKept ==
    direct_pc = "enforced" =>
        /\ (Len(direct_arg) >= 3 /\ Len(direct_arg) <= 5) => direct_items = direct_arg
        /\ Len(direct_arg) < 3 =>
               /\ Len(direct_items) >= Len(direct_arg)
               /\ SubSeq(direct_items, 1, Len(direct_arg)) = direct_arg

\* A list of exactly 3 items that is not in priority order, returned.
C20_Witness ==
    /\ direct_pc = "enforced"
    /\ Len(direct_arg) = 3
    /\ ~sorted_by_priority(direct_arg)
    /\ direct_items = direct_arg

(***************************************************************************)
(* responses_server.py: ResponsesServer.handle_responses                   *)
(***************************************************************************)
MaxHistory == 4

\* An optional value: <<>> is None or a missing key, <<v>> is v.
None == <<>>
Some(v) == <<v>>

\* A message dict; either key may be missing.
Message(role, content) == [role |-> role, content |-> content]

user_question == Message(Some("user"), Some("What to wear in 10001?"))
user_followup == Message(Some("user"), Some("And in Seattle?"))
user_empty == Message(Some("user"), Some(""))
user_without_content == Message(Some("user"), None)
system_prompt == Message(Some("system"), Some("You are helpful"))
without_role == Message(None, Some("What to wear in 10001?"))

\* The `messages` arguments served.
RequestMessages ==
    { <<>>,
      <<system_prompt>>,
      <<without_role>>,
      <<user_empty>>,
      <<user_without_content>>,
      <<system_prompt, user_empty>>,
      <<user_question>>,
      <<system_prompt, user_question>>,
      <<user_question, system_prompt>>,
      <<user_question, user_empty>>,
      <<user_empty, user_question>>,
      <<user_question, user_followup>>,
      <<user_question, user_question>> }

\* The `conversation_id` arguments: None, the empty string, an id.
RequestConversationIds == { None, Some(""), Some("test-123") }

\* The `model` arguments.
RequestModels == { None, Some("gpt-4o") }

\* What str(uuid.uuid4()) yields.
Uuids == { "8d8ac610-566d-4ef0-9c22-186b2a5ed793" }

\* What process_message returns: a dict, its keys "response" and "metadata"
\* present or not.
AgentResults ==
    { [response |-> Some("Wear a warm coat!"), metadata |-> Some("response_time")],
      [response |-> Some("Wear a warm coat!"), metadata |-> None],
      [response |-> None, metadata |-> None] }

\* What process_message raises: str(e).
AgentErrors == { "Agent timed out" }

\* d.get(key, default)
get(d, key, default) == IF key \in DOMAIN d THEN d[key] ELSE default

\* d[key] = value
put(d, key, value) == [k \in DOMAIN d \cup {key} |-> IF k = key THEN value ELSE d[k]]

\* bool(s) of an optional string: None and "" are falsy.
given(s) == s # None /\ s[1] # ""

\* for msg in messages: if msg not in history: history.append(msg)
RECURSIVE add_new_messages(_, _)
add_new_messages(h, messages) ==
    IF messages = <<>> THEN h
    ELSE add_new_messages(
             IF \E i \in 1..Len(h) : h[i] = Head(messages) THEN h ELSE Append(h, Head(messages)),
             Tail(messages))

\* for msg in reversed(messages): if msg.get("role") == "user":
\*     user_message = msg.get("content", ""); break
RECURSIVE latest_user_message(_)
latest_user_message(messages) ==
    IF messages = <<>> THEN None
    ELSE LET last == messages[Len(messages)] IN
         IF last.role = Some("user")
         THEN IF last.content = None THEN Some("") ELSE last.content
         ELSE latest_user_message(SubSeq(messages, 1, Len(messages) - 1))

error_value(code, message) == [error |-> [code |-> code, message |-> message]]

\* The dict of the successful return; `created`, read from the clock, is
\* left out.
response_value(id, model, content, cid, metadata) ==
    [ id |-> id,
      object |-> "response",
      model |-> IF given(model) THEN model[1] ELSE "gpt-4",
      choices |-> << [ index |-> 0,
                       message |-> [role |-> "assistant", content |-> content],
                       finish_reason |-> "stop" ] >>,
      conversation_id |-> cid,
      usage |-> [prompt_tokens |-> 0, completion_tokens |-> 0, total_tokens |-> 0],
      metadata |-> metadata ]

\* handle_responses up to its first return, raise or await (lines 58-94).
\* AgentService() raises ValueError without WEATHER_API_URL
\* (agent_service.py, lines 50-52), outside the try of handle_responses.
HandleResponses ==
    /\ server_pc = "idle"
    /\ \E messages \in RequestMessages, cid_arg \in RequestConversationIds,
          model \in RequestModels, uuid \in Uuids :
        /\ request' = [messages |-> messages, conversation_id |-> cid_arg, model |-> model]
        /\ IF agent_service = None /\ ~given(weather_api_url)
           THEN /\ response' = [raised |-> [type |-> "ValueError",
                                 message |-> "WEATHER_API_URL environment variable is required"]]
                /\ server_pc' = "raised"
                /\ UNCHANGED <<agent_service, conversations, conversation_id, history,
                               user_message, process_message_calls>>
           ELSE LET cid == IF given(cid_arg) THEN cid_arg[1] ELSE uuid
                    h == add_new_messages(get(conversations, cid, <<>>), messages)
                    um == latest_user_message(messages)
                IN  /\ ~given(cid_arg) => uuid \notin DOMAIN conversations
                    /\ Len(h) < MaxHistory
                    /\ agent_service' = IF agent_service = None
                                        THEN Some("AgentService") ELSE agent_service
                    /\ conversation_id' = Some(cid)
                    /\ history' = h
                    \* history is the stored list itself when there is one
                    /\ conversations' = IF cid \in DOMAIN conversations
                                        THEN put(conversations, cid, h) ELSE conversations
                    /\ user_message' = um
                    /\ IF ~given(um)
                       THEN /\ response' = error_value("invalid_request",
                                               "No user message found in request")
                            /\ process_message_calls' = <<>>
                            /\ server_pc' = "returned"
                       ELSE /\ response' = None
                            /\ process_message_calls' =
                                   << [message |-> um[1], session_id |-> cid, returned |-> None] >>
                            /\ server_pc' = "awaiting"
    /\ UNCHANGED weather_api_url
    /\ UNCHANGED beside_server

\* process_message returns; lines 101-123.  result["response"] of a dict
\* without the key raises KeyError inside the try.
AgentReturns ==
    /\ server_pc = "awaiting"
    /\ \E agent_result \in AgentResults, id \in Uuids :
        /\ process_message_calls' =
               << [process_message_calls[1] EXCEPT !.returned = Some(agent_result)] >>
        /\ IF agent_result.response = None
           THEN /\ response' = error_value("internal_error", "'response'")
                /\ UNCHANGED <<history, conversations>>
           ELSE LET h == Append(history, Message(Some("assistant"), agent_result.response))
                IN  /\ history' = h
                    /\ conversations' = put(conversations, conversation_id[1], h)
                    /\ response' = response_value(id, request.model, agent_result.response[1],
                                       conversation_id[1],
                                       IF agent_result.metadata = None
                                       THEN "{}" ELSE agent_result.metadata[1])
    /\ server_pc' = "returned"
    /\ UNCHANGED <<weather_api_url, agent_service, request, conversation_id, user_message>>
    /\ UNCHANGED beside_server

\* process_message raises; lines 125-132.
AgentRaises ==
    /\ server_pc = "awaiting"
    /\ \E e \in AgentErrors : response' = error_value("internal_error", e)
    /\ server_pc' = "returned"
    /\ UNCHANGED <<weather_api_url, agent_service, conversations, request, conversation_id,
                   history, user_message, process_message_calls>>
    /\ UNCHANGED beside_server

\* The call is over and its locals are gone.
HandlerDone ==
    /\ server_pc \in {"returned", "raised"}
    /\ server_pc' = "idle"
    /\ request' = <<>>
    /\ conversation_id' = <<>>
    /\ history' = <<>>
    /\ user_message' = <<>>
    /\ process_message_calls' = <<>>
    /\ response' = <<>>
    /\ UNCHANGED <<weather_api_url, agent_service, conversations>>
    /\ UNCHANGED beside_server

\* A server given an agent service (the tests) or none (main.py), with
\* WEATHER_API_URL set or not.
InitAnyServer ==
    /\ \E url \in {None, Some("http://weather-api:8080")},
          service \in {None, Some("AgentService")} : InitServer(url, service)
    /\ InitTool
    /\ InitEngine({1})
    /\ InitDirect
    /\ InitWorkflow
    /\ InitService(<<"ChatAgent">>)

NextServer ==
    \/ HandleResponses
    \/ AgentReturns
    \/ AgentRaises
    \/ HandlerDone

SpecServer == InitAnyServer /\ [][NextServer]_vars

(***************************************************************************)
(* weather_tool.py: WeatherTool.get_weather                                *)
(***************************************************************************)
SC_001_RESPONSE_TIME_SECONDS == 5

\* The zip_code arguments.
ZipCodes == { "10001", "98101", "00000", "" }

\* What requests.get raises: the exception's class and str(e).
RequestExceptions ==
    { [type |-> "ReadTimeout", message |-> "Read timed out."],
      [type |-> "ConnectTimeout", message |-> "Connection timed out."],
      [type |-> "ConnectionError", message |-> "Connection refused"],
      [type |-> "TooManyRedirects", message |-> "Exceeded 30 redirects."] }

\* The status codes of the responses requests.get returns.
StatusCodes == { 200, 204, 404, 500 }

\* The bodies of those responses.
Bodies ==
    { "{\"zip_code\": \"10001\", \"location\": \"New York, NY\", \"temperature\": 45.0}",
      "{\"error\": {\"error_code\": \"INVALID_ZIP\"}}",
      "{}",
      "[]",
      "null",
      "<html>Bad Gateway</html>",
      "" }

HttpResponses == { [status_code |-> s, text |-> b] : s \in StatusCodes, b \in Bodies }

\* A JSON value as Python holds it: a dict, or a value that is no dict.
json_dict(d) == [type |-> "dict", value |-> d]
json_other(t) == [type |-> t]
JSONDecodeError == [type |-> "JSONDecodeError"]

\* response.json(): the parsed body, or JSONDecodeError where the body is
\* no JSON text.
json(text) ==
    CASE text = "{\"zip_code\": \"10001\", \"location\": \"New York, NY\", \"temperature\": 45.0}"
             -> json_dict([zip_code |-> "10001", location |-> "New York, NY",
                           temperature |-> 45 * Scale])
      [] text = "{\"error\": {\"error_code\": \"INVALID_ZIP\"}}"
             -> json_dict([error |-> [error_code |-> "INVALID_ZIP"]])
      [] text = "{}" -> json_dict(<<>>)
      [] text = "[]" -> json_other("list")
      [] text = "null" -> json_other("NoneType")
      [] OTHER -> JSONDecodeError

\* The timeout test that knows read timeouts only.
is_timeout_read_only(e) == e.type = "ReadTimeout"

\* except requests.exceptions.Timeout: its subclasses are ReadTimeout and
\* ConnectTimeout.
is_timeout(e) == e.type \in {"Timeout", "ReadTimeout", "ConnectTimeout"}

\* response.raise_for_status() raises HTTPError for a 4xx or 5xx status.
raises_for_status(r) == r.status_code >= 400 /\ r.status_code < 600

tool_error(error_code, message, details) ==
    [error |-> [error_code |-> error_code, message |-> message, details |-> details]]

\* The two except clauses (lines 83-124): what they track and return.
handled(e) ==
    IF is_timeout(e)
    THEN tool_error("TIMEOUT", "Weather request timed out",
             "Request exceeded " \o ToString(SC_001_RESPONSE_TIME_SECONDS) \o " seconds")
    ELSE tool_error("API_ERROR", "Error calling weather API", e.message)

\* get_weather up to requests.get (lines 50-57).
GetWeather ==
    /\ tool_pc = "idle"
    /\ \E z \in ZipCodes : zip_code' = z
    /\ tool_pc' = "requesting"
    /\ UNCHANGED <<http_response, tracked, tool_result>>
    /\ UNCHANGED beside_tool

\* requests.get raises and an except clause returns (lines 83-124).
RequestRaises ==
    /\ tool_pc = "requesting"
    /\ \E e \in RequestExceptions :
        /\ http_response' = [raised |-> e]
        /\ tool_result' = handled(e)
    /\ tracked' = Append(tracked, FALSE)
    /\ tool_pc' = "returned"
    /\ UNCHANGED zip_code
    /\ UNCHANGED beside_tool

\* requests.get returns a response.
RequestReturns ==
    /\ tool_pc = "requesting"
    /\ \E r \in HttpResponses : http_response' = r
    /\ tool_pc' = "responded"
    /\ UNCHANGED <<zip_code, tracked, tool_result>>
    /\ UNCHANGED beside_tool

\* Lines 65-81 and the except clause they may end in: raise_for_status,
\* response.json(), track_dependency, result.get(...) (AttributeError on a
\* value that is no dict, after the call was tracked as a success), return.
ReadResponse ==
    /\ tool_pc = "responded"
    /\ LET parsed == json(http_response.text) IN
       IF raises_for_status(http_response)
       THEN /\ tool_result' = handled([type |-> "HTTPError",
                                  message |-> ToString(http_response.status_code) \o " Error"])
            /\ tracked' = Append(tracked, FALSE)
       ELSE IF parsed = JSONDecodeError
       THEN /\ tool_result' = handled([type |-> "JSONDecodeError",
                                  message |-> "Expecting value: line 1 column 1 (char 0)"])
            /\ tracked' = Append(tracked, FALSE)
       ELSE IF parsed.type # "dict"
       THEN /\ tool_result' = handled([type |-> "AttributeError",
                                  message |-> "'" \o parsed.type \o "' object has no attribute 'get'"])
            /\ tracked' = tracked \o <<TRUE, FALSE>>
       ELSE /\ tool_result' = parsed.value
            /\ tracked' = Append(tracked, TRUE)
    /\ tool_pc' = "returned"
    /\ UNCHANGED <<zip_code, http_response>>
    /\ UNCHANGED beside_tool

\* The caller is done with the result.
ToolDone ==
    /\ tool_pc = "returned"
    /\ tool_pc' = "idle"
    /\ zip_code' = ""
    /\ http_response' = <<>>
    /\ tracked' = <<>>
    /\ tool_result' = <<>>
    /\ UNCHANGED beside_tool

NextTool ==
    \/ GetWeather
    \/ RequestRaises
    \/ RequestReturns
    \/ ReadResponse
    \/ ToolDone

SpecTool == Init /\ [][NextTool]_vars

(***************************************************************************)
(* Properties of the server and the tool                                   *)
(***************************************************************************)

(***************************************************************************)
(* agent-container/workflow_orchestrator.py: WorkflowOrchestrator          *)
(***************************************************************************)
lowercase == "abcdefghijklmnopqrstuvwxyz"
uppercase == "ABCDEFGHIJKLMNOPQRSTUVWXYZ"
digits == "0123456789"

\* s[i - 1] in Python's counting: the i-th character, a string of length 1.
char(s, i) == SubSeq(s, i, i)

chars_of(s) == { char(s, i) : i \in 1..Len(s) }

\* str.lower() character by character.
lower_char(ch) ==
    IF ch \in chars_of(uppercase)
    THEN char(lowercase, CHOOSE i \in 1..Len(uppercase) : char(uppercase, i) = ch)
    ELSE ch

\* The halves are lowered one after the other.
RECURSIVE str_lower(_)
str_lower(s) ==
    IF Len(s) = 0 THEN ""
    ELSE IF Len(s) = 1 THEN lower_char(s)
    ELSE str_lower(SubSeq(s, 1, Len(s) \div 2)) \o str_lower(SubSeq(s, Len(s) \div 2 + 1, Len(s)))

\* \d and \w of the re module, on the characters of the messages served.
is_digit(ch) == ch \in chars_of(digits)
is_word(ch) == is_digit(ch) \/ ch = "_" \/ ch \in chars_of(lowercase) \/ ch \in chars_of(uppercase)

\* \b at the gap before the i-th character: one side a word character,
\* the other not (the ends of the string count as not).
word_boundary(s, i) ==
    (i > 1 /\ is_word(char(s, i - 1))) # (i <= Len(s) /\ is_word(char(s, i)))

\* The pattern \b\d{5}\b matches at the i-th character.
zip_at(s, i) ==
    /\ i >= 1
    /\ i + 4 <= Len(s)
    /\ \A k \in i..(i + 4) : is_digit(char(s, k))
    /\ word_boundary(s, i)
    /\ word_boundary(s, i + 5)

\* The pattern written without the word boundaries.
zip_search_unbounded(s) ==
    LET at == { i \in 1..Len(s) : i + 4 <= Len(s) /\ \A k \in i..(i + 4) : is_digit(char(s, k)) }
    IN  IF at = {} THEN None
        ELSE LET m == CHOOSE i \in at : \A j \in at : i <= j IN Some(SubSeq(s, m, m + 4))

\* re.search(r'\b\d{5}\b', message): the leftmost match, if any.
zip_search(s) ==
    LET at == { i \in 1..Len(s) : zip_at(s, i) }
    IN  IF at = {} THEN None
        ELSE LET m == CHOOSE i \in at : \A j \in at : i <= j IN Some(SubSeq(s, m, m + 4))

\* The `message` arguments of execute_workflow.
WorkflowMessages ==
    { "What should I wear in 10001?",
      "What should I wear today?",
      "Seattle 98101 or 10001",
      "My code is 123456",
      "Order a12345 please",
      "zip 1234",
      "" }

\* The `session_id` arguments of execute_workflow.
WorkflowSessionIds == { None, Some("session-1") }

\* What agent_service._call_weather_function returns, with the text of
\* weather_data['error'] in an f-string where it is an error value.
WeatherResults ==
    { [value |-> [location |-> "New York, NY", temperature |-> 45 * Scale], error_text |-> None],
      [value |-> tool_error("TIMEOUT", "Weather request timed out", "Request exceeded 5 seconds"),
       error_text |-> Some("{'error_code': 'TIMEOUT', 'message': 'Weather request timed out', 'details': 'Request exceeded 5 seconds'}")],
      [value |-> tool_error("API_ERROR", "Error calling weather API", "Network is unreachable"),
       error_text |-> Some("{'error_code': 'API_ERROR', 'message': 'Error calling weather API', 'details': 'Network is unreachable'}")],
      [value |-> tool_error("API_ERROR", "Error calling weather API", "Connection refused"),
       error_text |-> Some("{'error_code': 'API_ERROR', 'message': 'Error calling weather API', 'details': 'Connection refused'}")] }

\* What agent_service.process_message_simple returns, and str(e) of what it
\* raises.
AgentTexts == { "Wear a warm coat!" }
AgentFailures == { "Agent run failed" }

\* str(uuid.uuid4()) of line 100, a new one for each execution.
workflow_id_of(e) == "workflow-" \o ToString(e)

\* WorkflowStep.__init__; the duration, read from the clock, is left out.
WorkflowStep(step_id, description, step_type, depends_on) ==
    [ step_id |-> step_id, description |-> description, step_type |-> step_type,
      depends_on |-> depends_on, output |-> None, success |-> FALSE, error |-> None ]

\* Lines 105-110.
new_steps ==
    << WorkflowStep("parse_user_input", "Parse user message", "agent_reasoning", None),
       WorkflowStep("get_weather_data", "Call weather function", "tool_call",
                    Some("parse_user_input")),
       WorkflowStep("generate_recommendations", "Generate recommendations", "agent_reasoning",
                    Some("get_weather_data")),
       WorkflowStep("format_response", "Format final response", "agent_response",
                    Some("generate_recommendations")) >>

\* self._get_step(step_id) on a list of steps: the step's place, 0 for None.
get_step(steps, step_id) ==
    IF \E i \in 1..Len(steps) : steps[i].step_id = step_id
    THEN CHOOSE i \in 1..Len(steps) :
             /\ steps[i].step_id = step_id
             /\ \A j \in 1..(i - 1) : steps[j].step_id # step_id
    ELSE 0

\* Lines 174-177: the dependency check of _execute_step raises.
dependency_fails(steps, step) ==
    /\ step.depends_on # None
    /\ LET p == get_step(steps, step.depends_on[1]) IN p = 0 \/ ~steps[p].success

dependency_error(step) == "Dependency step " \o step.depends_on[1] \o " failed or not found"

\* The except clause of _execute_step and its normal end.
failed(step, error) == [step EXCEPT !.success = FALSE, !.error = Some(error)]
succeeded_with(step, output) == [step EXCEPT !.output = output, !.success = TRUE]

\* Lines 275-282.
fallback_response(error_message) ==
    IF contains(str_lower(error_message), "zip code")
    THEN "I couldn't find a valid zip code in your message. Please provide a 5-digit US zip code."
    ELSE IF contains(str_lower(error_message), "timeout")
    THEN "The weather service is taking too long to respond. Please try again in a moment."
    ELSE IF contains(str_lower(error_message), "network")
    THEN "I'm having trouble connecting to the weather service. Please check your connection and try again."
    ELSE "I encountered an error processing your request. Please try again."

\* The error value naming the step _get_current_step_id finds: the first
\* one that neither succeeded nor failed.
handle_workflow_error_current_step(failed_step, context) ==
    LET error_message == IF failed_step.error = None \/ failed_step.error = Some("")
                         THEN "Unknown error" ELSE failed_step.error[1]
        steps == new_steps
        later == { i \in 1..Len(steps) : i > get_step(steps, failed_step.step_id) }
    IN  [ response |-> Some(fallback_response(error_message)),
          session_id |-> context.session_id,
          metadata |-> [ workflow_id |-> context.workflow_id,
                         error |-> error_message,
                         failed_step |-> IF later = {} THEN "unknown"
                                         ELSE steps[CHOOSE i \in later : \A j \in later : i <= j].step_id ] ]

\* _handle_workflow_error(failed_step), reading self.workflow_context.
handle_workflow_error(failed_step, context) ==
    LET error_message == IF failed_step.error = None \/ failed_step.error = Some("")
                         THEN "Unknown error" ELSE failed_step.error[1]
    IN  [ response |-> Some(fallback_response(error_message)),
          session_id |-> context.session_id,
          metadata |-> [ workflow_id |-> context.workflow_id,
                         error |-> error_message,
                         failed_step |-> failed_step.step_id ] ]

\* Lines 138-148 on self.steps; the durations are left out.
workflow_success(steps, session_id, context) ==
    [ response |-> steps[Len(steps)].output,
      session_id |-> session_id,
      metadata |-> [ workflow_id |-> context.workflow_id,
                     steps_executed |-> Len(steps) ] ]

\* self.steps: the list made by the execution that last started.
current_steps == wf_steps[self_steps[1]]

\* The event loop runs one execution at a time and changes over only at an
\* await that suspends: line 251, inside the last step.
suspended(e) == wf_pc[e] \in {"idle", "awaiting", "returned"}
may_run(e) == \A f \in Executions \ {e} : suspended(f)

\* The step of the loop at wf_pc[e], in the list the loop iterates.
step_at(e) == get_step(wf_steps[e], wf_pc[e])

\* Lines 120-121 after a step that failed: the step stored and the error
\* value returned.
StepFails(e, error) ==
    LET step == failed(wf_steps[e][step_at(e)], error) IN
    /\ wf_steps' = [wf_steps EXCEPT ![e][step_at(e)] = step]
    /\ wf_result' = [wf_result EXCEPT ![e] = Some(handle_workflow_error(step, workflow_context))]
    /\ wf_pc' = [wf_pc EXCEPT ![e] = "returned"]

\* A step that succeeded, and the loop going on to the next.
StepSucceeds(e, output, next) ==
    /\ wf_steps' = [wf_steps EXCEPT ![e][step_at(e)] = succeeded_with(@, output)]
    /\ wf_pc' = [wf_pc EXCEPT ![e] = next]
    /\ UNCHANGED wf_result

\* execute_workflow up to its loop (lines 90-112).
ExecuteWorkflow(e) ==
    /\ wf_pc[e] = "idle"
    /\ may_run(e)
    /\ \E message \in WorkflowMessages, session_id \in WorkflowSessionIds, uuid \in Uuids :
        LET sid == IF given(session_id) THEN session_id[1] ELSE uuid IN
        /\ wf_message' = [wf_message EXCEPT ![e] = message]
        /\ wf_session_id' = [wf_session_id EXCEPT ![e] = sid]
        /\ workflow_context' = [message |-> message, session_id |-> sid,
                                workflow_id |-> workflow_id_of(e)]
    /\ wf_steps' = [wf_steps EXCEPT ![e] = new_steps]
    /\ self_steps' = Some(e)
    /\ wf_calls' = [wf_calls EXCEPT ![e] = <<>>]
    /\ wf_result' = [wf_result EXCEPT ![e] = None]
    /\ wf_pc' = [wf_pc EXCEPT ![e] = "parse_user_input"]
    /\ UNCHANGED beside_workflow

\* The step parse_user_input: _execute_step and _execute_agent_reasoning
\* (lines 200-212).
ParseUserInput(e) ==
    /\ wf_pc[e] = "parse_user_input"
    /\ LET zip_match == zip_search(workflow_context.message) IN
       StepSucceeds(e,
           Some(IF zip_match # None
                THEN [zip_code |-> zip_match[1], has_zip_code |-> TRUE]
                ELSE [has_zip_code |-> FALSE]),
           "get_weather_data")
    /\ UNCHANGED <<wf_message, wf_session_id, wf_calls, self_steps, workflow_context>>
    /\ UNCHANGED beside_workflow

\* The step get_weather_data: _execute_step and _execute_tool_call
\* (lines 224-238).
GetWeatherData(e) ==
    /\ wf_pc[e] = "get_weather_data"
    /\ LET step == wf_steps[e][step_at(e)]
           parse_step == current_steps[get_step(current_steps, "parse_user_input")]
       IN  IF dependency_fails(current_steps, step)
           THEN StepFails(e, dependency_error(step)) /\ UNCHANGED wf_calls
           ELSE IF ~parse_step.output[1].has_zip_code
           THEN StepFails(e, "No zip code found in user message") /\ UNCHANGED wf_calls
           ELSE \E weather_data \in WeatherResults :
                   /\ wf_calls' = [wf_calls EXCEPT ![e] =
                          Append(@, [function |-> "_call_weather_function",
                                     zip_code |-> parse_step.output[1].zip_code])]
                   /\ IF weather_data.error_text # None
                      THEN StepFails(e, "Weather function error: " \o weather_data.error_text[1])
                      ELSE StepSucceeds(e, Some(weather_data.value), "generate_recommendations")
    /\ UNCHANGED <<wf_message, wf_session_id, self_steps, workflow_context>>
    /\ UNCHANGED beside_workflow

\* The step generate_recommendations: _execute_step and
\* _execute_agent_reasoning (lines 214-218).
GenerateRecommendations(e) ==
    /\ wf_pc[e] = "generate_recommendations"
    /\ LET step == wf_steps[e][step_at(e)]
           weather_step == current_steps[get_step(current_steps, "get_weather_data")]
       IN  IF dependency_fails(current_steps, step)
           THEN StepFails(e, dependency_error(step))
           ELSE StepSucceeds(e, weather_step.output, "format_response")
    /\ UNCHANGED <<wf_message, wf_session_id, wf_calls, self_steps, workflow_context>>
    /\ UNCHANGED beside_workflow

\* The step format_response up to its await: _execute_step and
\* _execute_agent_response (lines 244-251).
FormatResponse(e) ==
    /\ wf_pc[e] = "format_response"
    /\ LET step == wf_steps[e][step_at(e)] IN
       IF dependency_fails(current_steps, step)
       THEN StepFails(e, dependency_error(step)) /\ UNCHANGED wf_calls
       ELSE /\ wf_calls' = [wf_calls EXCEPT ![e] =
                   Append(@, [function |-> "process_message_simple",
                              message |-> workflow_context.message,
                              session_id |-> workflow_context.session_id])]
            /\ wf_pc' = [wf_pc EXCEPT ![e] = "awaiting"]
            /\ UNCHANGED <<wf_steps, wf_result>>
    /\ UNCHANGED <<wf_message, wf_session_id, self_steps, workflow_context>>
    /\ UNCHANGED beside_workflow

\* process_message_simple returns: the step and the loop end, and lines
\* 124-148 read self.steps and self.workflow_context.
AgentResponds(e) ==
    /\ wf_pc[e] = "awaiting"
    /\ may_run(e)
    /\ \E text \in AgentTexts :
        LET mine == [wf_steps[e] EXCEPT ![4] = succeeded_with(@, Some(text))]
            steps == IF self_steps = Some(e) THEN mine ELSE current_steps
        IN  /\ wf_steps' = [wf_steps EXCEPT ![e] = mine]
            /\ wf_result' = [wf_result EXCEPT ![e] =
                   Some(workflow_success(steps, wf_session_id[e], workflow_context))]
    /\ wf_pc' = [wf_pc EXCEPT ![e] = "returned"]
    /\ UNCHANGED <<wf_message, wf_session_id, wf_calls, self_steps, workflow_context>>
    /\ UNCHANGED beside_workflow

\* process_message_simple raises: the except clause of _execute_step, then
\* lines 120-121.
AgentFails(e) ==
    /\ wf_pc[e] = "awaiting"
    /\ may_run(e)
    /\ \E error \in AgentFailures :
        LET step == failed(wf_steps[e][4], error) IN
        /\ wf_steps' = [wf_steps EXCEPT ![e][4] = step]
        /\ wf_result' = [wf_result EXCEPT ![e] =
               Some(handle_workflow_error(step, workflow_context))]
    /\ wf_pc' = [wf_pc EXCEPT ![e] = "returned"]
    /\ UNCHANGED <<wf_message, wf_session_id, wf_calls, self_steps, workflow_context>>
    /\ UNCHANGED beside_workflow

\* The caller is done with the result; the list of steps stays where
\* self.steps may still name it.
WorkflowDone(e) ==
    /\ wf_pc[e] = "returned"
    /\ wf_pc' = [wf_pc EXCEPT ![e] = "idle"]
    /\ wf_message' = [wf_message EXCEPT ![e] = ""]
    /\ wf_session_id' = [wf_session_id EXCEPT ![e] = ""]
    /\ wf_calls' = [wf_calls EXCEPT ![e] = <<>>]
    /\ wf_result' = [wf_result EXCEPT ![e] = None]
    /\ UNCHANGED <<wf_steps, self_steps, workflow_context>>
    /\ UNCHANGED beside_workflow

NextWorkflow ==
    \/ \E e \in Executions : ExecuteWorkflow(e)
    \/ \E e \in Executions : ParseUserInput(e)
    \/ \E e \in Executions : GetWeatherData(e)
    \/ \E e \in Executions : GenerateRecommendations(e)
    \/ \E e \in Executions : FormatResponse(e)
    \/ \E e \in Executions : AgentResponds(e)
    \/ \E e \in Executions : AgentFails(e)
    \/ \E e \in Executions : WorkflowDone(e)

SpecWorkflow == Init /\ [][NextWorkflow]_vars

\* The request holds no message with role "user" and non-empty content.
no_user_text(messages) ==
    ~\E i \in 1..Len(messages) :
        messages[i].role = Some("user") /\ given(messages[i].content)

served == server_pc \in {"awaiting", "returned", "raised"}

succeeded == server_pc = "returned" /\ "choices" \in DOMAIN response

\* C12: handle_responses, given messages with no user message of non-empty
\* content, returns the error value with code "invalid_request" without
\* calling process_message; and a successful result for a request with a
\* conversation_id carries that conversation_id and the agent's response as
\* choices[0].message.content.
C12_InvalidRequestOrSuccess ==
    /\ (served /\ no_user_text(request.messages)) =>
           /\ server_pc = "returned"
           /\ "error" \in DOMAIN response
           /\ response.error.code = "invalid_request"
           /\ process_message_calls = <<>>
    /\ (succeeded /\ given(request.conversation_id)) =>
           /\ response.conversation_id = request.conversation_id[1]
           /\ process_message_calls[1].returned # None
           /\ Some(response.choices[1].message.content)
                  = process_message_calls[1].returned[1].response

\* The same of a server that holds an agent service or can create one.
C12_WithAgentService ==
    (agent_service # None \/ given(weather_api_url)) => C12_InvalidRequestOrSuccess

\* A request without user text reached a server that has no agent service
\* and no WEATHER_API_URL: the call raised.
C12_Raised ==
    /\ server_pc = "raised"
    /\ no_user_text(request.messages)
    /\ response.raised.type = "ValueError"

\* How the HTTP request of the call went.
request_raised == "raised" \in DOMAIN http_response

timed_out ==
    request_raised /\ http_response.raised.type \in {"ReadTimeout", "ConnectTimeout"}

got_json_object ==
    /\ ~request_raised
    /\ http_response.status_code < 400
    /\ json(http_response.text) # JSONDecodeError
    /\ json(http_response.text).type = "dict"

is_error(value, error_code) ==
    /\ DOMAIN value = {"error"}
    /\ value.error.error_code = error_code

\* C13: every call of get_weather ends by returning: the error value with
\* error_code "TIMEOUT" when the HTTP request timed out, the weather API's
\* JSON object as it was parsed when the request succeeded, and the error
\* value with error_code "API_ERROR" after any other failure (an HTTP error
\* status, a connection failure, a body that is no JSON object).
C13_NeverRaises ==
    /\ tool_pc \in {"idle", "requesting", "responded", "returned"}
    /\ tool_pc = "returned" =>
           /\ timed_out => is_error(tool_result, "TIMEOUT")
           /\ got_json_object => tool_result = json(http_response.text).value
           /\ (~timed_out /\ ~got_json_object) => is_error(tool_result, "API_ERROR")

\* A call whose connection attempt timed out, returned.
C13_Witness ==
    /\ tool_pc = "returned"
    /\ request_raised
    /\ http_response.raised.type = "ConnectTimeout"
    /\ is_error(tool_result, "TIMEOUT")

(***************************************************************************)
(* Termination of the padding loop                                         *)
(***************************************************************************)
\* A call that has started runs on: its loop iterates while its test holds
\* and returns when it fails.
SpecDirectFair == SpecDirect /\ WF_vars(EnforcePad) /\ WF_vars(EnforceReturn)

\* C21: for every list of fewer than 3 items and every temperature category
\* the padding loop of _enforce_item_count ends: the call returns, with
\* exactly 3 items, and at no moment has the loop appended more than 3 items
\* or made the list longer than 3.
C21_PaddingTerminates ==
    /\ [](  (direct_pc \in {"pad", "enforced"} /\ Len(direct_arg) < 3) =>
                /\ Len(direct_items) <= 3
                /\ Len(direct_items) - Len(direct_arg) <= 3 )
    /\ (direct_pc = "pad" /\ Len(direct_arg) < 3)
           ~> (direct_pc = "enforced" /\ Len(direct_items) = 3)

\* A call on the empty list, returned after three iterations.
C21_Witness ==
    /\ direct_pc = "enforced"
    /\ direct_arg = <<>>
    /\ Len(direct_items) = 3

\* C22: every filler the padding loop of _enforce_item_count appends has a
\* name that differs, whatever the case, from the name of every item in
\* the list at that moment, for every list of fewer than 3 items and every
\* temperature category.
C22_FillerNamesNew ==
    [][ (direct_pc = "pad" /\ Len(direct_arg) < 3 /\ direct_items' # direct_items) =>
            lower(direct_items'[Len(direct_items')].name) \notin lowered_names(direct_items)
      ]_vars

\* A cold-weather call on a single footwear item, returned: "Long pants"
\* was appended twice.
C22_LongPantsTwice ==
    /\ direct_pc = "enforced"
    /\ Len(direct_arg) = 1
    /\ has_footwear(direct_arg)
    /\ direct_items[2].name = "Long pants"
    /\ direct_items[3].name = "Long pants"

(***************************************************************************)
(* Properties of the workflow                                              *)
(***************************************************************************)
step_order ==
    <<"parse_user_input", "get_weather_data", "generate_recommendations", "format_response">>

\* What an execution's own steps look like.
not_run(step) == ~step.success /\ step.error = None /\ step.output = None
step_failed(step) == ~step.success /\ step.error # None

has_steps(e) == Len(wf_steps[e]) = 4
under_way(e) == wf_pc[e] \notin {"idle", "returned"}
workflow_returned(e) == wf_pc[e] = "returned"
reported(e) == wf_result[e][1].metadata

\* C23: the steps of an execution of execute_workflow are the four steps
\* in their fixed order; a step is executed only when every earlier step has
\* succeeded and no later one was executed; once a step has failed no step
\* of the execution changes again; the metadata returned name the first
\* failed step as failed_step; steps_executed = 4 is returned only when all
\* four steps succeeded.
C23_StepOrder ==
    /\ [](\A e \in Executions :
            /\ has_steps(e) => \A k \in 1..4 : wf_steps[e][k].step_id = step_order[k]
            /\ workflow_returned(e) =>
                   /\ "failed_step" \in DOMAIN reported(e) =>
                          \E k \in 1..4 :
                              /\ reported(e).failed_step = step_order[k]
                              /\ step_failed(wf_steps[e][k])
                              /\ \A j \in 1..(k - 1) : wf_steps[e][j].success
                              /\ \A j \in (k + 1)..4 : not_run(wf_steps[e][j])
                   /\ "steps_executed" \in DOMAIN reported(e) =>
                          /\ reported(e).steps_executed = 4
                          /\ \A k \in 1..4 : wf_steps[e][k].success)
    /\ [][\A e \in Executions :
            (under_way(e) /\ has_steps(e)) =>
                /\ \A k \in 1..4 :
                       wf_steps'[e][k] # wf_steps[e][k] =>
                           /\ not_run(wf_steps[e][k])
                           /\ \A j \in 1..(k - 1) : wf_steps[e][j].success
                           /\ \A j \in (k + 1)..4 : not_run(wf_steps'[e][j])
                /\ (\E k \in 1..4 : step_failed(wf_steps[e][k])) => wf_steps'[e] = wf_steps[e]
      ]_vars

\* An execution whose agent call failed, returned: three steps succeeded
\* and format_response is named as the failed step.
C23_Witness ==
    \E e \in Executions :
        /\ workflow_returned(e)
        /\ \A k \in 1..3 : wf_steps[e][k].success
        /\ step_failed(wf_steps[e][4])
        /\ reported(e).failed_step = "format_response"

\* The message holds five digits in a row with no letter, digit or
\* underscore on either side.
has_standalone_zip(message) ==
    \E i \in 1..Len(message) :
        /\ i + 4 <= Len(message)
        /\ \A k \in i..(i + 4) : char(message, k) \in chars_of(digits)
        /\ i = 1 \/ ~is_word(char(message, i - 1))
        /\ i + 4 = Len(message) \/ ~is_word(char(message, i + 5))

\* C24: an execution of execute_workflow on a message without a standalone
\* 5-digit sequence returns, with parse_user_input succeeded,
\* get_weather_data failed, format_response not executed, no call of the
\* weather function or of the agent, the zip-code fallback text as response
\* and failed_step "get_weather_data".
C24_NoZipCodeFallback ==
    \A e \in Executions :
        (~suspended(e) \/ workflow_returned(e)) /\ ~has_standalone_zip(wf_message[e]) =>
            /\ wf_calls[e] = <<>>
            /\ wf_pc[e] \in {"parse_user_input", "get_weather_data", "returned"}
            /\ workflow_returned(e) =>
                   /\ wf_steps[e][1].success
                   /\ step_failed(wf_steps[e][2])
                   /\ not_run(wf_steps[e][3])
                   /\ not_run(wf_steps[e][4])
                   /\ wf_result[e][1].response =
                          Some("I couldn't find a valid zip code in your message. Please provide a 5-digit US zip code.")
                   /\ reported(e).failed_step = "get_weather_data"

\* An execution on a message with six digits in a row, returned with the
\* fallback text.
C24_Witness ==
    \E e \in Executions :
        /\ workflow_returned(e)
        /\ wf_message[e] = "My code is 123456"
        /\ reported(e).failed_step = "get_weather_data"
        /\ wf_calls[e] = <<>>

(***************************************************************************)
(* The fields of WeatherData the engine does not read                      *)
(***************************************************************************)
\* WeatherData with every field of the dataclass (models.py, lines 22-39).
FullWeatherData(zip, loc, temp, feels, hum, wind, descr, ptype, pprob, conds) ==
    [ zip_code |-> zip, location |-> loc, temperature |-> temp,
      feels_like |-> feels, humidity |-> hum, wind_speed |-> wind,
      description |-> descr, precipitation_type |-> ptype,
      precipitation_probability |-> pprob, conditions |-> conds ]

\* The other six fields: one setting, each field changed alone, and all
\* changed.  feels_like is given by its distance from temperature, and
\* precipitation_probability in steps of 1/Scale.
OtherFields ==
    LET one == [zip_code |-> "98101", location |-> "Seattle, WA", feels_like_below |-> 0,
                description |-> "clear sky", precipitation_probability |-> None,
                conditions |-> <<>>]
    IN  { one,
          [one EXCEPT !.zip_code = "10001"],
          [one EXCEPT !.location = "New York, NY"],
          [one EXCEPT !.feels_like_below = 25 * Scale],
          [one EXCEPT !.description = "light rain"],
          [one EXCEPT !.precipitation_probability = Some((8 * Scale) \div 10)],
          [one EXCEPT !.conditions = <<"Rain", "Clouds">>],
          [zip_code |-> "10001", location |-> "New York, NY", feels_like_below |-> 25 * Scale,
           description |-> "light rain", precipitation_probability |-> Some((8 * Scale) \div 10),
           conditions |-> <<"Rain", "Clouds">>] }

FieldWeather ==
    { FullWeatherData(o.zip_code, o.location, t, t - o.feels_like_below, h, v, o.description,
                      p, o.precipitation_probability, o.conditions) :
        o \in OtherFields, t \in {40 * Scale, 60 * Scale}, h \in {HUMIDITY_HIGH + 1},
        v \in {5 * Scale, 30 * Scale}, p \in {PRECIP_TYPE_NONE, PRECIP_TYPE_RAIN} }

NextFields ==
    \/ \E c \in Callers : Call(c, FieldWeather)
    \/ \E c \in Callers : TemperatureItems(c)
    \/ \E c \in Callers : PrecipitationItems(c)
    \/ \E c \in Callers : WindItems(c)
    \/ \E c \in Callers : HumidityNote(c)
    \/ \E c \in Callers : DedupeAndPrioritize(c)
    \/ \E c \in Callers : Truncate(c)
    \/ \E c \in Callers : PadIteration(c)
    \/ \E c \in Callers : Return(c)
    \/ \E c \in Callers : Remember(c)

SpecFields == Init /\ [][NextFields]_vars

\* Two inputs agree on the four fields the rules read.
same_conditions(w1, w2) ==
    /\ w1.temperature = w2.temperature
    /\ w1.humidity = w2.humidity
    /\ w1.wind_speed = w2.wind_speed
    /\ w1.precipitation_type = w2.precipitation_type

\* C25: a recommendation's temperature_category is the classification of
\* the input's temperature, and two inputs that agree on temperature,
\* humidity, wind_speed and precipitation_type get the same items, category
\* and special_considerations, whatever their feels_like,
\* precipitation_probability, description, conditions, zip_code and location.
C25_OnlyFourFields ==
    \A c \in Callers :
        done(c) =>
            /\ returned(c).temperature_category
                   = classify_temperature(weather[c][1].temperature)
            /\ (memo # <<>> /\ same_conditions(memo[1].weather, weather[c][1])) =>
                   /\ returned(c).items = memo[1].recommendation.items
                   /\ returned(c).temperature_category
                          = memo[1].recommendation.temperature_category
                   /\ returned(c).special_considerations
                          = memo[1].recommendation.special_considerations

\* A call after an earlier one with the same four fields and every other
\* field different, feels_like in another band than temperature.
C25_Witness ==
    \E c \in Callers :
        /\ done(c)
        /\ memo # <<>>
        /\ memo[1].earlier
        /\ same_conditions(memo[1].weather, weather[c][1])
        /\ memo[1].weather.feels_like # weather[c][1].feels_like
        /\ memo[1].weather.zip_code # weather[c][1].zip_code
        /\ memo[1].weather.location # weather[c][1].location
        /\ memo[1].weather.description # weather[c][1].description
        /\ memo[1].weather.precipitation_probability # weather[c][1].precipitation_probability
        /\ memo[1].weather.conditions # weather[c][1].conditions
        /\ classify_temperature(weather[c][1].feels_like)
               # classify_temperature(weather[c][1].temperature)

(***************************************************************************)
(* Where the padding loop runs inside generate_recommendations             *)
(***************************************************************************)
\* Moderate temperature, no precipitation, wind not above the breezy threshold.
mild_and_calm(w) ==
    /\ classify_temperature(w.temperature) = "Moderate"
    /\ ~truthy(w.precipitation_type)
    /\ w.wind_speed <= WIND_THRESHOLD_BREEZY

\* The filler of lines 384-391 for a list without footwear outside cold weather.
comfortable_shoes ==
    ClothingItem("Comfortable shoes", FOOTWEAR, "Appropriate footwear for the weather", 3)

\* C26: inside generate_recommendations the padding loop has an iteration
\* to run exactly when the category is Moderate, precipitation is absent and
\* wind_speed <= 15; then one filler, the comfortable-shoes footwear item,
\* is appended to the two candidates; in every other case the rules yield
\* at least 3 candidates and the result holds no filler.
C26_PaddingOnlyMildAndCalm ==
    \A c \in Callers :
        /\ (pc[c] = "pad" /\ needs_padding(items[frame(c)])) => mild_and_calm(weather[c][1])
        /\ done(c) =>
               IF mild_and_calm(weather[c][1])
               THEN /\ Len(candidate_items(weather[c][1])) = 2
                    /\ returned(c).items
                           = dedupe_and_prioritize(candidate_items(weather[c][1]))
                             \o << comfortable_shoes >>
               ELSE /\ Len(candidate_items(weather[c][1])) >= 3
                    /\ returned(c).items
                           = truncate(dedupe_and_prioritize(candidate_items(weather[c][1])))

\* A completed call in mild, calm weather with the filler as its third item.
C26_Witness ==
    \E c \in Callers :
        /\ done(c)
        /\ mild_and_calm(weather[c][1])
        /\ Len(returned(c).items) = 3
        /\ returned(c).items[3] = comfortable_shoes

(***************************************************************************)
(* The candidate list and the de-duplication                               *)
(***************************************************************************)
\* No two items of seq have names equal after lowercasing.
distinct_names(seq) ==
    \A i, j \in 1..Len(seq) : i # j => lower(seq[i].name) # lower(seq[j].name)

\* C27: the candidate list that generate_recommendations builds from the
\* temperature, precipitation and wind rules never holds two items whose
\* names are equal after lowercasing, so _dedupe_and_prioritize removes
\* nothing there: its output is as long as the candidate list.
C27_CandidatesDistinct ==
    \A c \in Callers :
        /\ pc[c] = "dedupe" =>
               /\ items[frame(c)] = candidate_items(weather[c][1])
               /\ distinct_names(items[frame(c)])
        /\ pc[c] = "enforce" =>
               Len(items[frame(c)]) = Len(candidate_items(weather[c][1]))

\* The de-duplication has run on candidates of all three rules.
C27_Witness ==
    \E c \in Callers :
        /\ pc[c] = "enforce"
        /\ truthy(weather[c][1].precipitation_type)
        /\ weather[c][1].wind_speed > WIND_THRESHOLD_BREEZY
        /\ Len(items[frame(c)]) = 6

(***************************************************************************)
(* What the truncation to five items keeps                                 *)
(***************************************************************************)
\* The names the high-wind branch of _get_wind_items gives its item.
wind_outerwear_names == {"Wind-resistant outer layer", "Windbreaker"}

has_wind_outerwear(seq) ==
    \E i \in 1..Len(seq) :
        /\ seq[i].name \in wind_outerwear_names
        /\ seq[i].category = OUTERWEAR
        /\ seq[i].priority = 1

\* C28: whenever the special_considerations of a recommendation contain
\* "High winds expected", its items contain the priority-1 wind outerwear
\* item of the wind rule, also with precipitation items present and the
\* list truncated to 5.
C28_WindItemKept ==
    \A c \in Callers :
        (done(c) /\ "High winds expected" \in notes_of(returned(c).special_considerations))
            => has_wind_outerwear(returned(c).items)

\* A recommendation noting high winds whose five items hold no wind item:
\* six candidates of priority 1, the wind item the last of them.
C28_WindItemDropped ==
    \E c \in Callers :
        /\ done(c)
        /\ "High winds expected" \in notes_of(returned(c).special_considerations)
        /\ has_wind_outerwear(candidate_items(weather[c][1]))
        /\ Len(returned(c).items) = 5
        /\ ~has_wind_outerwear(returned(c).items)

\* The footwear items the precipitation rule adds.
precipitation_footwear(w) ==
    { i \in elements_of(get_precipitation_items(w.precipitation_type,
                                                classify_temperature(w.temperature))) :
        i.category = FOOTWEAR }

\* C29: with precipitation_type "rain" or "snow", in every band and at
\* every wind speed, the items of the recommendation contain a footwear
\* item: the waterproof footwear of the precipitation rule is among them,
\* truncation or not.
C29_FootwearKept ==
    \A c \in Callers :
        (done(c) /\ weather[c][1].precipitation_type \in {PRECIP_TYPE_RAIN, PRECIP_TYPE_SNOW})
            => /\ has_footwear(returned(c).items)
               /\ precipitation_footwear(weather[c][1]) # {}
               /\ precipitation_footwear(weather[c][1]) \subseteq elements_of(returned(c).items)

\* Rain in high wind: eight candidates, five kept, the footwear among them.
C29_Witness ==
    \E c \in Callers :
        /\ done(c)
        /\ weather[c][1].precipitation_type = PRECIP_TYPE_RAIN
        /\ weather[c][1].wind_speed > WIND_THRESHOLD_WINDY
        /\ Len(candidate_items(weather[c][1])) > 5
        /\ has_footwear(returned(c).items)

(***************************************************************************)
(* agent_service.py: the conversation histories of AgentService            *)
(***************************************************************************)
MaxSessionLen == 4

ServiceMessages == {"What should I wear in 10001?"}
AgentRunTexts == {"Wear a warm coat."}
AgentRunErrors == {"RuntimeError('model unavailable')"}

\* time.time() - start_time, in seconds, on both sides of the threshold.
ResponseTimes == {1, SC_001_RESPONSE_TIME_SECONDS + 1}

\* {"role": role, "content": content}
history_entry(role, content) == [role |-> role, content |-> content]

\* _generate_mock_response
generate_mock_response(message) ==
    "Mock response to: " \o message \o "\n\nNote: Azure Agent Framework SDK not installed."

\* The dict process_message returns.
message_result(response_text, session_id, response_time) ==
    [ response |-> response_text,
      session_id |-> session_id,
      metadata |-> [ response_time |-> response_time,
                     within_threshold |-> response_time <= SC_001_RESPONSE_TIME_SECONDS ] ]

\* What a call hands to its caller: a value returned or an exception raised.
returns(value) == [raised |-> None, value |-> Some(value)]
raises(exception) == [raised |-> Some(exception), value |-> None]

\* del d[key]
del(d, key) == [k \in DOMAIN d \ {key} |-> d[k]]

\* A list object is alive while self.sessions or a local `conversation`
\* names it.
referenced(o, stored, locals) ==
    \/ \E sid \in DOMAIN stored : stored[sid] = o
    \/ \E t \in Tasks : locals[t] = Some(o)

\* The list objects after the ones no name refers to are freed.
collect(objects, stored, locals) ==
    [o \in ListObjects |-> IF referenced(o, stored, locals) THEN objects[o] ELSE <<>>]

\* The object of the [] in self.sessions.get(session_id, []).
new_list_object == CHOOSE o \in ListObjects : ~referenced(o, sessions, as_conversation)

\* conversation = self.sessions.get(session_id, []): the list stored, not a
\* copy of it, or a new list.
sessions_get(session_id) == get(sessions, session_id, new_list_object)

\* The history stored for session_id, if there is one.
stored_history(stored, objects, session_id) ==
    IF session_id \in DOMAIN stored THEN Some(objects[stored[session_id]]) ELSE None

\* The calls suspended in agent.run whose `conversation` is the list o.
awaiting_on(o) == { t \in Tasks : as_conversation[t] = Some(o) }

\* process_message (lines 316-329) and process_message_simple (lines
\* 388-399) with an agent, up to the await of agent.run: the list is looked
\* up and the user message appended to it.  The call keeps the history its
\* session had when it began.
CallAgent(t, method, session_id, message) ==
    /\ as_pc[t] = "idle"
    /\ agent # None
    /\ LET o == sessions_get(session_id)
           found == session_id \in DOMAIN sessions
           elements == IF found THEN lists[sessions[session_id]] ELSE <<>>
       IN  /\ Len(lists[o]) + 2 * (1 + Cardinality(awaiting_on(o))) <= MaxSessionLen
           /\ as_conversation' = [as_conversation EXCEPT ![t] = Some(o)]
           /\ lists' = [lists EXCEPT ![o] = Append(elements, history_entry("user", message))]
           /\ as_call' = [as_call EXCEPT ![t] =
                             Some([ method |-> method, session_id |-> session_id,
                                    message |-> message,
                                    before |-> stored_history(sessions, lists, session_id) ])]
    /\ as_pc' = [as_pc EXCEPT ![t] = "await"]
    /\ UNCHANGED <<as_result, agent, sessions>>
    /\ UNCHANGED beside_service

\* Both methods without an agent (lines 317-319 and 388-389): the mock
\* response, no history.
CallMock(t, method, session_id, message, response_time) ==
    /\ as_pc[t] = "idle"
    /\ agent = None
    /\ method = "process_message_simple" => response_time = 1
    /\ as_call' = [as_call EXCEPT ![t] =
                      Some([ method |-> method, session_id |-> session_id,
                             message |-> message,
                             before |-> stored_history(sessions, lists, session_id) ])]
    /\ as_result' = [as_result EXCEPT ![t] =
                        Some(returns(IF method = "process_message"
                                     THEN message_result(generate_mock_response(message),
                                                         session_id, response_time)
                                     ELSE generate_mock_response(message)))]
    /\ as_pc' = [as_pc EXCEPT ![t] = "returned"]
    /\ UNCHANGED <<as_conversation, agent, sessions, lists>>
    /\ UNCHANGED beside_service

\* agent.run returns (lines 332-362 and 402-414): the assistant message is
\* appended to the list, the list stored under the session id, the response
\* returned.
AgentRunReturns(t, text, response_time) ==
    /\ as_pc[t] = "await"
    /\ as_call[t][1].method = "process_message_simple" => response_time = 1
    /\ LET o == as_conversation[t][1]
           call == as_call[t][1]
           stored == put(sessions, call.session_id, o)
           locals == [as_conversation EXCEPT ![t] = None]
       IN  /\ sessions' = stored
           /\ as_conversation' = locals
           /\ lists' = collect([lists EXCEPT ![o] = Append(@, history_entry("assistant", text))],
                               stored, locals)
           /\ as_result' = [as_result EXCEPT ![t] =
                               Some(returns(IF call.method = "process_message"
                                            THEN message_result(text, call.session_id,
                                                                response_time)
                                            ELSE text))]
    /\ as_pc' = [as_pc EXCEPT ![t] = "returned"]
    /\ UNCHANGED <<as_call, agent>>
    /\ UNCHANGED beside_service

\* agent.run raises: process_message raises the exception again (lines
\* 364-371), process_message_simple returns its apology (lines 416-419).
\* Neither touches the list or self.sessions.
AgentRunRaises(t, exception) ==
    /\ as_pc[t] = "await"
    /\ LET locals == [as_conversation EXCEPT ![t] = None] IN
           /\ as_conversation' = locals
           /\ lists' = collect(lists, sessions, locals)
    /\ as_result' = [as_result EXCEPT ![t] =
                        Some(IF as_call[t][1].method = "process_message"
                             THEN raises(exception)
                             ELSE returns("I encountered an error processing your request. "
                                          \o "Please try again."))]
    /\ as_pc' = [as_pc EXCEPT ![t] = "returned"]
    /\ UNCHANGED <<as_call, agent, sessions>>
    /\ UNCHANGED beside_service

\* reset_session (lines 421-427), called while no call or some call is
\* suspended.
ResetSession(session_id) ==
    /\ IF session_id \in DOMAIN sessions
       THEN /\ sessions' = del(sessions, session_id)
            /\ lists' = collect(lists, del(sessions, session_id), as_conversation)
       ELSE UNCHANGED <<sessions, lists>>
    /\ UNCHANGED <<as_pc, as_call, as_conversation, as_result, agent>>
    /\ UNCHANGED beside_service

\* The caller is done with what the call gave back.
ServiceDone(t) ==
    /\ as_pc[t] = "returned"
    /\ as_pc' = [as_pc EXCEPT ![t] = "idle"]
    /\ as_call' = [as_call EXCEPT ![t] = None]
    /\ as_result' = [as_result EXCEPT ![t] = None]
    /\ UNCHANGED <<as_conversation, agent, sessions, lists>>
    /\ UNCHANGED beside_service

ServiceMethods == {"process_message", "process_message_simple"}

InitAnyService ==
    /\ InitEngine({1})
    /\ InitDirect
    /\ InitServer(<<"http://weather-api:8080">>, <<>>)
    /\ InitTool
    /\ InitWorkflow
    /\ \E chat_agent \in {None, Some("ChatAgent")} : InitService(chat_agent)

NextService ==
    \/ \E t \in Tasks, method \in ServiceMethods, sid \in SessionIds, m \in ServiceMessages :
           CallAgent(t, method, sid, m)
    \/ \E t \in Tasks, method \in ServiceMethods, sid \in SessionIds, m \in ServiceMessages,
          s \in ResponseTimes : CallMock(t, method, sid, m, s)
    \/ \E t \in Tasks, text \in AgentRunTexts, s \in ResponseTimes : AgentRunReturns(t, text, s)
    \/ \E t \in Tasks, e \in AgentRunErrors : AgentRunRaises(t, e)
    \/ \E sid \in SessionIds : ResetSession(sid)
    \/ \E t \in Tasks : ServiceDone(t)

SpecService == InitAnyService /\ [][NextService]_vars

\* user, assistant, user, assistant, ... to an even length.
alternates(h) ==
    /\ Len(h) % 2 = 0
    /\ \A i \in 1..Len(h) : h[i].role = (IF i % 2 = 1 THEN "user" ELSE "assistant")

\* The call of t ended in an exception of agent.run.
call_failed(t) ==
    /\ as_pc[t] = "returned"
    /\ IF as_call[t][1].method = "process_message"
       THEN as_result[t][1].raised # None
       ELSE as_result[t][1].value
                = Some("I encountered an error processing your request. Please try again.")

\* C30: with an agent, after any process_message, process_message_simple
\* and reset_session calls, agent.run raising or not, every history stored
\* in sessions has, while no call is suspended, even length and alternates user, assistant; a failed
\* call leaves the stored history of its session as it was, a successful
\* one extends it by one user and one assistant message, and reset_session
\* removes the named session only.
C30_HistoriesAlternate ==
    /\ []((agent # None /\ \A t \in Tasks : as_pc[t] # "await") =>
            \A sid \in DOMAIN sessions : alternates(lists[sessions[sid]]))
    /\ [][\A t \in Tasks :
            (agent # None /\ as_pc[t] = "await" /\ as_pc'[t] = "returned") =>
                LET call == as_call[t][1]
                    after == stored_history(sessions', lists', call.session_id)
                IN  IF call_failed(t)'
                    THEN after = call.before
                    ELSE after = Some((IF call.before = None THEN <<>> ELSE call.before[1])
                                      \o << history_entry("user", call.message),
                                            history_entry("assistant",
                                                          lists'[sessions'[call.session_id]]
                                                              [Len(lists'[sessions'[call.session_id]])]
                                                              .content) >>)]_vars
    /\ [][\A sid \in SessionIds :
            (sid \in DOMAIN sessions /\ sid \notin DOMAIN sessions') =>
                \A other \in SessionIds \ {sid} :
                    stored_history(sessions', lists', other)
                        = stored_history(sessions, lists, other)]_vars

\* No call is under way and a stored history ends with a user message that
\* got no answer: user, assistant, user.
C30_DanglingUserMessage ==
    /\ agent # None
    /\ \A t \in Tasks : as_pc[t] = "idle"
    /\ \E sid \in DOMAIN sessions :
           /\ Len(lists[sessions[sid]]) = 3
           /\ lists[sessions[sid]][1].role = "user"
           /\ lists[sessions[sid]][2].role = "assistant"
           /\ lists[sessions[sid]][3].role = "user"

====
